---------------------------- MODULE Spec2Model ----------------------------
(***************************************************************************)
(* A model of the aggregation core of YTMiner (src/ytminer.py): the record *)
(* list returned by search_videos and the six aggregators of YouTubeMiner  *)
(* that consume it.                                                        *)
(*                                                                         *)
(* Numbers.  pandas computes in IEEE doubles.  A double is modelled as an  *)
(* exact non-negative fraction [n, d] in lowest terms; d = 0 encodes the   *)
(* two non-finite values a division by zero produces: 0/0 is NaN and x/0   *)
(* (x > 0) is +inf.  Rounding to two decimals is round-half-to-even on the *)
(* exact value.                                                            *)
(***************************************************************************)
EXTENDS Integers, Sequences, FiniteSets, TLC

VARIABLES
    videos,          \* the record list held by the caller (List[Dict])
    search_keyword,  \* the keyword of the run, a sequence of characters
    now,             \* the wall clock read by datetime.now()
    op,              \* the aggregator called last, "none" before any call
    args,            \* the arguments of a helper called on its own, else <<>>
    result,          \* the value the last call returned
    error,           \* the exception the last call raised, "none" if none
    run              \* the command-line run around the calls: main's position,
                     \* its options and environment, and what it has done

vars == <<videos, search_keyword, now, op, args, result, error, run>>

---------------------------------------------------------------------------
(* Bounds of the model.                                                    *)

MaxVideos == 3
MaxRankedVideos == 6
MaxChannels == 13

---------------------------------------------------------------------------
(* Sequences and integers.                                                 *)

Min(a, b) == IF a <= b THEN a ELSE b
Max(a, b) == IF a >= b THEN a ELSE b

RECURSIVE GCD(_, _)
GCD(a, b) == IF b = 0 THEN a ELSE GCD(b, a % b)

Range(s) == {s[i] : i \in DOMAIN s}

HeadN(s, n) == SubSeq(s, 1, Min(n, Len(s)))

RECURSIVE SumSeq(_)
SumSeq(s) == IF s = <<>> THEN 0 ELSE Head(s) + SumSeq(Tail(s))

RECURSIVE SetToSortedSeq(_)
SetToSortedSeq(S) ==
    IF S = {} THEN <<>>
    ELSE LET m == CHOOSE x \in S : \A y \in S : x <= y
         IN  <<m>> \o SetToSortedSeq(S \ {m})

SelectIdx(s, Test(_)) == SetToSortedSeq({i \in DOMAIN s : Test(s[i])})

Pick(s, idx) == [k \in DOMAIN idx |-> s[idx[k]]]

---------------------------------------------------------------------------
(* Doubles as exact fractions, with NaN and +inf.                          *)

NaN == [n |-> 0, d |-> 0]
Inf == [n |-> 1, d |-> 0]

Frac(a, b) ==
    IF b = 0 THEN (IF a = 0 THEN NaN ELSE Inf)
    ELSE LET g == GCD(a, b) IN [n |-> a \div g, d |-> b \div g]

Num(a) == [n |-> a, d |-> 1]
IsNaN(x) == x.d = 0 /\ x.n = 0
IsInf(x) == x.d = 0 /\ x.n > 0
IsFinite(x) == x.d > 0

FDiv(x, y) ==
    IF IsNaN(x) \/ IsNaN(y) THEN NaN
    ELSE IF IsInf(x) THEN (IF IsInf(y) THEN NaN ELSE Inf)
    ELSE IF IsInf(y) THEN Num(0)
    ELSE Frac(x.n * y.d, x.d * y.n)

FMul(x, y) ==
    IF IsNaN(x) \/ IsNaN(y) THEN NaN
    ELSE IF IsInf(x) \/ IsInf(y)
         THEN (IF (IsFinite(x) /\ x.n = 0) \/ (IsFinite(y) /\ y.n = 0) THEN NaN ELSE Inf)
    ELSE Frac(x.n * y.n, x.d * y.d)

FAdd(x, y) ==
    IF IsNaN(x) \/ IsNaN(y) THEN NaN
    ELSE IF IsInf(x) \/ IsInf(y) THEN Inf
    ELSE Frac(x.n * y.d + y.n * x.d, x.d * y.d)

\* x > y and x < y as IEEE compares them: any comparison with NaN is false.
FGt(x, y) ==
    /\ ~IsNaN(x) /\ ~IsNaN(y)
    /\ IF IsInf(x) THEN ~IsInf(y)
       ELSE IF IsInf(y) THEN FALSE
       ELSE x.n * y.d > y.n * x.d

FLt(x, y) == FGt(y, x)

\* round-half-to-even of a / b for a >= 0, b > 0
RoundHalfEven(a, b) ==
    LET q == a \div b
        r == a % b
    IN  IF 2 * r < b THEN q
        ELSE IF 2 * r > b THEN q + 1
        ELSE IF q % 2 = 0 THEN q ELSE q + 1

\* Series.round(2) / round(x, 2): NaN and inf are kept.
Round2(x) == IF ~IsFinite(x) THEN x ELSE Frac(RoundHalfEven(x.n * 100, x.d), 100)

\* int(x) of a finite non-negative double
Trunc(x) == x.n \div x.d

RECURSIVE FSumSeq(_)
FSumSeq(s) == IF s = <<>> THEN Num(0) ELSE FAdd(Head(s), FSumSeq(Tail(s)))

\* Series.sum() and Series.mean() skip NaN (skipna=True); the mean of no value is NaN.
NotNaNs(s) == Pick(s, SelectIdx(s, LAMBDA x : ~IsNaN(x)))
SeriesSum(s) == FSumSeq(NotNaNs(s))
SeriesMean(s) ==
    LET kept == NotNaNs(s)
    IN  IF kept = <<>> THEN NaN ELSE FDiv(FSumSeq(kept), Num(Len(kept)))

IntSeries(s) == [i \in DOMAIN s |-> Num(s[i])]

---------------------------------------------------------------------------
(* Strings are sequences of one-character strings.                        *)

UpperLetters == <<"A", "B", "C", "D", "E", "F", "G", "H", "I", "J", "K", "L", "M", "N", "O", "P", "Q", "R", "S", "T", "U", "V", "W", "X", "Y", "Z">>
LowerLetters == <<"a", "b", "c", "d", "e", "f", "g", "h", "i", "j", "k", "l", "m", "n", "o", "p", "q", "r", "s", "t", "u", "v", "w", "x", "y", "z">>
Digits == {"0", "1", "2", "3", "4", "5", "6", "7", "8", "9"}

IsAlpha(c) == c \in Range(UpperLetters) \/ c \in Range(LowerLetters)
IsDigit(c) == c \in Digits
IsSpace(c) == c = " "
\* \w of the re module
IsWordChar(c) == IsAlpha(c) \/ IsDigit(c) \/ c = "_"

LowerChar(c) ==
    IF c \in Range(UpperLetters)
    THEN LowerLetters[CHOOSE i \in DOMAIN UpperLetters : UpperLetters[i] = c]
    ELSE c

\* str.lower()
Lower(s) == [i \in DOMAIN s |-> LowerChar(s[i])]

\* needle in hay
Contains(hay, needle) ==
    \E i \in 0..(Len(hay) - Len(needle)) : SubSeq(hay, i + 1, i + Len(needle)) = needle

\* the maximal runs of s between the positions of breaks, in order
RunsBetween(s, breaks) ==
    LET starts == {a \in DOMAIN s \ breaks : a = 1 \/ (a - 1) \in breaks}
        EndOf(a) == CHOOSE b \in a..Len(s) :
                        /\ \A k \in a..b : k \notin breaks
                        /\ b = Len(s) \/ (b + 1) \in breaks
        first == SetToSortedSeq(starts)
    IN  [k \in DOMAIN first |-> SubSeq(s, first[k], EndOf(first[k]))]

\* str.split(): the maximal runs of non-space characters
Split(s) == RunsBetween(s, {i \in DOMAIN s : IsSpace(s[i])})

\* ' '.join(words)
RECURSIVE Join(_)
Join(words) ==
    IF words = <<>> THEN <<>>
    ELSE IF Len(words) = 1 THEN words[1]
    ELSE words[1] \o <<" ">> \o Join(Tail(words))

\* re.search(r'\d+', s)
HasDigit(s) == \E i \in DOMAIN s : IsDigit(s[i])

\* re.search(r'[^\w\s]', s)
HasSymbol(s) == \E i \in DOMAIN s : ~IsWordChar(s[i]) /\ ~IsSpace(s[i])

ContainsAny(s, needles) == \E w \in needles : Contains(s, w)

---------------------------------------------------------------------------
(* Timestamps.  publishedAt is an ISO-8601 string; pd.to_datetime parses   *)
(* it into year, month, day and hour (minutes and seconds are dropped      *)
(* here: every derived column is a whole hour or a whole day).             *)

Stamp(y, m, d, h) == [year |-> y, month |-> m, day |-> d, hour |-> h]

\* days since 1970-01-01 of a proleptic Gregorian date
DaysFromCivil(y, m, d) ==
    LET yy  == IF m <= 2 THEN y - 1 ELSE y
        era == yy \div 400
        yoe == yy - era * 400
        mp  == IF m > 2 THEN m - 3 ELSE m + 9
        doy == (153 * mp + 2) \div 5 + d - 1
        doe == yoe * 365 + yoe \div 4 - yoe \div 100 + doy
    IN  era * 146097 + doe - 719468

HoursOf(t) == DaysFromCivil(t.year, t.month, t.day) * 24 + t.hour

day_order == <<"Monday", "Tuesday", "Wednesday", "Thursday", "Friday", "Saturday", "Sunday">>

\* Series.dt.day_name(): 1970-01-01 was a Thursday
DayName(t) == day_order[((DaysFromCivil(t.year, t.month, t.day) + 3) % 7) + 1]

\* the days between the two calendar dates, whatever the hours
DaysAgoByDate(t_now, t) ==
    DaysFromCivil(t_now.year, t_now.month, t_now.day) - DaysFromCivil(t.year, t.month, t.day)

\* (datetime.now() - published_at).dt.days: whole days, rounded down
DaysAgo(t_now, t) == (HoursOf(t_now) - HoursOf(t)) \div 24

---------------------------------------------------------------------------
(* Selections of pandas.                                                   *)

\* The positions DataFrame.nlargest(n, column) keeps (keep='first'): the n
\* largest keys in non-increasing order, equal keys in their input order.
RECURSIVE NLargestFrom(_, _, _)
NLargestFrom(n, keys, left) ==
    IF n = 0 \/ left = {} THEN <<>>
    ELSE LET best == CHOOSE i \in left :
                        \A j \in left : keys[i] > keys[j] \/ (keys[i] = keys[j] /\ i <= j)
         IN  <<best>> \o NLargestFrom(n - 1, keys, left \ {best})

\* the first n positions in input order, as DataFrame.head(n) would give
NLargestAsHead(n, keys) == [k \in 1..Min(n, Len(keys)) |-> k]

\* the same selection with equal keys in reverse input order, as keep='last'
\* would give
NLargestKeepLast(n, keys) ==
    LET Before(i, j) == keys[i] > keys[j] \/ (keys[i] = keys[j] /\ i > j)
        Place(i) == Cardinality({j \in DOMAIN keys : Before(j, i)}) + 1
    IN  [k \in 1..Min(n, Len(keys)) |-> CHOOSE i \in DOMAIN keys : Place(i) = k]

NLargest(n, keys) == NLargestFrom(n, keys, DOMAIN keys)

Column(rows, f) == [i \in DOMAIN rows |-> rows[i][f]]

---------------------------------------------------------------------------
(* analyze_growth_patterns                                                 *)

\* the empty dict {}
EmptyResult == <<>>

WithDaysAgo(vs, t_now) ==
    [i \in DOMAIN vs |->
        [title |-> vs[i].title, view_count |-> vs[i].view_count,
         like_count |-> vs[i].like_count,
         days_ago |-> DaysAgo(t_now, vs[i].published_at)]]

\* (df['like_count'] / df['view_count']): 0/0 is NaN, x/0 is inf
LikeRatio(vs) == [i \in DOMAIN vs |-> FDiv(Num(vs[i].like_count), Num(vs[i].view_count))]

TopRows(df, n, col, fields) ==
    LET idx == NLargest(n, Column(df, col))
    IN  [k \in DOMAIN idx |-> [f \in fields |-> df[idx[k]][f]]]

analyze_growth_patterns(vs, t_now) ==
    IF vs = <<>> THEN EmptyResult
    ELSE LET df     == WithDaysAgo(vs, t_now)
             recent == Pick(df, SelectIdx(df, LAMBDA r : r.days_ago <= 7))
         IN  [total_videos |-> Len(vs),
              avg_views |-> SeriesMean(IntSeries(Column(vs, "view_count"))),
              avg_likes |-> SeriesMean(IntSeries(Column(vs, "like_count"))),
              avg_engagement_rate |-> FMul(SeriesMean(LikeRatio(vs)), Num(100)),
              top_performers |->
                  TopRows(df, 5, "view_count", {"title", "view_count", "like_count", "days_ago"}),
              recent_trends |->
                  TopRows(recent, 3, "view_count", {"title", "view_count", "days_ago"}),
              best_engagement |->
                  TopRows(df, 3, "like_count", {"title", "like_count", "view_count", "days_ago"})]

---------------------------------------------------------------------------
(* analyze_competitors                                                     *)

\* The orders DataFrame.sort_values(column, ascending=False) can leave the
\* positions in: keys non-increasing.  The default sort (quicksort) is not
\* stable, so positions with equal keys come in any order.
RECURSIVE DescendingOrdersFrom(_, _)
DescendingOrdersFrom(keys, left) ==
    IF left = {} THEN {<<>>}
    ELSE LET top == {i \in left : \A j \in left : keys[i] >= keys[j]}
         IN  UNION {{<<i>> \o rest : rest \in DescendingOrdersFrom(keys, left \ {i})} : i \in top}

DescendingOrders(keys) == DescendingOrdersFrom(keys, DOMAIN keys)

\* a group holding the first of its rows only
RowsOfFirst(vs, f, value) == HeadN(Pick(vs, SelectIdx(vs, LAMBDA r : r[f] = value)), 1)

\* the rows of one group of df.groupby(f)
RowsOf(vs, f, value) == Pick(vs, SelectIdx(vs, LAMBDA r : r[f] = value))

\* one row of df.groupby('channel').agg(...).round(2), with engagement_rate
ChannelRow(vs, c) ==
    LET rows        == RowsOf(vs, "channel", c)
        total_views == SumSeq(Column(rows, "view_count"))
        total_likes == SumSeq(Column(rows, "like_count"))
    IN  [channel |-> c,
         video_count |-> Len(rows),
         total_views |-> total_views,
         avg_views |-> Round2(SeriesMean(IntSeries(Column(rows, "view_count")))),
         total_likes |-> total_likes,
         avg_likes |-> Round2(SeriesMean(IntSeries(Column(rows, "like_count")))),
         title_count |-> Len(rows),
         engagement_rate |->
             Round2(FMul(FDiv(Num(total_likes), Num(total_views)), Num(100)))]

\* the channels in first-occurrence order (the grouping itself is a set:
\* the order of its rows is settled by the sort that follows)
RECURSIVE DistinctFrom(_, _)
DistinctFrom(s, seen) ==
    IF s = <<>> THEN <<>>
    ELSE IF Head(s) \in seen THEN DistinctFrom(Tail(s), seen)
    ELSE <<Head(s)>> \o DistinctFrom(Tail(s), seen \cup {Head(s)})

Distinct(s) == DistinctFrom(s, {})

\* one row per record, as if the frame had not been grouped
GroupPerVideo(vs) == [k \in DOMAIN vs |-> ChannelRow(<<vs[k]>>, vs[k].channel)]

GroupByChannel(vs) ==
    LET cs == Distinct(Column(vs, "channel"))
    IN  [k \in DOMAIN cs |-> ChannelRow(vs, cs[k])]

\* the share as a fraction of 1, the factor 100 forgotten
MarketShareAsFraction(channel_views, total_views) ==
    Round2(FDiv(Num(channel_views), Num(total_views)))

\* channel_stats['total_views'] / total_views * 100, rounded
MarketShare(channel_views, total_views) ==
    Round2(FMul(FDiv(Num(channel_views), Num(total_views)), Num(100)))

WithMarketShare(stats, total_views) ==
    [k \in DOMAIN stats |->
        [f \in DOMAIN stats[k] \cup {"market_share"} |->
            IF f = "market_share" THEN MarketShare(stats[k].total_views, total_views)
            ELSE stats[k][f]]]

TutorialWordsOfChannels ==
    {<<"t", "u", "t", "o", "r", "i", "a", "l">>, <<"h", "o", "w", " ", "t", "o">>, <<"l", "e", "a", "r", "n">>, <<"c", "o", "u", "r", "s", "e">>}

Ratio(k, n) == FMul(FDiv(Num(k), Num(n)), Num(100))

ChannelContentPatterns(vs, c) ==
    LET titles == Column(RowsOf(vs, "channel", c), "title")
        n      == Len(titles)
    IN  [avg_title_length |-> Frac(SumSeq([i \in DOMAIN titles |-> Len(titles[i])]), n),
         tutorial_ratio |->
             Ratio(Cardinality({i \in DOMAIN titles :
                 ContainsAny(Lower(titles[i]), TutorialWordsOfChannels)}), n),
         number_ratio |-> Ratio(Cardinality({i \in DOMAIN titles : HasDigit(titles[i])}), n),
         emoji_ratio |-> Ratio(Cardinality({i \in DOMAIN titles : HasSymbol(titles[i])}), n)]

\* f"{x:.1f}": one decimal; nan and inf print as such
Format1(x) == IF ~IsFinite(x) THEN x ELSE Frac(RoundHalfEven(x.n * 10, x.d), 10)

_generate_market_insights(channel_stats, total_views) ==
    LET top_5_share    == SeriesSum(Column(HeadN(channel_stats, 5), "market_share"))
        avg_engagement == SeriesMean(Column(channel_stats, "engagement_rate"))
        avg_videos     == SeriesMean(IntSeries(Column(channel_stats, "video_count")))
    IN  << IF FGt(top_5_share, Num(70))
              THEN "Market is highly concentrated - dominated by few channels"
           ELSE IF FGt(top_5_share, Num(50))
              THEN "Market has moderate concentration - some dominant players"
           ELSE "Market is fragmented - many small players, opportunity for growth",
           [text |-> IF FGt(avg_engagement, Num(5)) THEN "High engagement niche"
                     ELSE IF FGt(avg_engagement, Num(2)) THEN "Medium engagement niche"
                     ELSE "Low engagement niche",
            avg |-> Format1(avg_engagement)],
           IF FGt(avg_videos, Num(10)) THEN "High content volume - consistency is key"
           ELSE "Moderate content volume - opportunity for regular posting",
           IF total_views > 100000000 THEN "Large market - high competition but big rewards"
           ELSE IF total_views > 10000000
              THEN "Medium market - balanced competition and opportunity"
           ELSE "Smaller market - less competition, niche opportunity" >>

\* the thresholds of _generate_market_insights used for the level
ConcentrationLevelOff(top_5_share) ==
    IF FGt(top_5_share, Num(70)) THEN "High"
    ELSE IF FGt(top_5_share, Num(50)) THEN "Medium" ELSE "Low"

ConcentrationLevel(top_5_share) ==
    IF FGt(top_5_share, Num(60)) THEN "High"
    ELSE IF FGt(top_5_share, Num(40)) THEN "Medium" ELSE "Low"

\* the analysis with every sorted channel listed, none cut off
CompetitorsUncut(vs, grouped, order) ==
    LET total_views   == SumSeq(Column(grouped, "total_views"))
        channel_stats == WithMarketShare(Pick(grouped, order), total_views)
        top_5_share   == SeriesSum(Column(HeadN(channel_stats, 5), "market_share"))
        top_10_share  == SeriesSum(Column(HeadN(channel_stats, 10), "market_share"))
        top_channels  == Range(Column(HeadN(channel_stats, 5), "channel"))
    IN  [total_channels |-> Len(channel_stats),
         market_concentration |->
             [top_5_share |-> top_5_share,
              top_10_share |-> top_10_share,
              concentration_level |-> ConcentrationLevel(top_5_share)],
         top_competitors |-> channel_stats,
         content_patterns |-> [c \in top_channels |-> ChannelContentPatterns(vs, c)],
         market_insights |-> _generate_market_insights(channel_stats, total_views)]

\* The result for one outcome of the sort: order lists the positions of the
\* grouped rows as sort_values left them.
CompetitorsSortedAs(vs, grouped, order) ==
    LET total_views   == SumSeq(Column(grouped, "total_views"))
        channel_stats == WithMarketShare(Pick(grouped, order), total_views)
        top_5_share   == SeriesSum(Column(HeadN(channel_stats, 5), "market_share"))
        top_10_share  == SeriesSum(Column(HeadN(channel_stats, 10), "market_share"))
        top_channels  == Range(Column(HeadN(channel_stats, 5), "channel"))
    IN  [total_channels |-> Len(channel_stats),
         market_concentration |->
             [top_5_share |-> top_5_share,
              top_10_share |-> top_10_share,
              concentration_level |-> ConcentrationLevel(top_5_share)],
         top_competitors |-> HeadN(channel_stats, 10),
         content_patterns |-> [c \in top_channels |-> ChannelContentPatterns(vs, c)],
         market_insights |-> _generate_market_insights(channel_stats, total_views)]

\* every value analyze_competitors can return for vs
analyze_competitors(vs) ==
    IF vs = <<>> THEN {EmptyResult}
    ELSE LET grouped == GroupByChannel(vs)
         IN  {CompetitorsSortedAs(vs, grouped, order) :
                  order \in DescendingOrders(Column(grouped, "total_views"))}

---------------------------------------------------------------------------
(* analyze_temporal_patterns                                               *)

\* the frame with its time components, days_ago and engagement_rate
WithTimeColumns(vs, t_now) ==
    [i \in DOMAIN vs |->
        [view_count |-> vs[i].view_count,
         like_count |-> vs[i].like_count,
         hour |-> vs[i].published_at.hour,
         day_of_week |-> DayName(vs[i].published_at),
         month |-> vs[i].published_at.month,
         year |-> vs[i].published_at.year,
         days_ago |-> DaysAgo(t_now, vs[i].published_at),
         engagement_rate |->
             Round2(FMul(FDiv(Num(vs[i].like_count), Num(vs[i].view_count)), Num(100)))]]

\* the positions of keys in non-decreasing key order, equal keys in input order
RECURSIVE AscendingFrom(_, _)
AscendingFrom(keys, left) ==
    IF left = {} THEN <<>>
    ELSE LET first == CHOOSE i \in left :
                         \A j \in left : keys[i] < keys[j] \/ (keys[i] = keys[j] /\ i <= j)
         IN  <<first>> \o AscendingFrom(keys, left \ {first})

Ascending(keys) == AscendingFrom(keys, DOMAIN keys)

\* the day names as groupby sorts its keys
DaysAlphabetical ==
    <<"Friday", "Monday", "Saturday", "Sunday", "Thursday", "Tuesday", "Wednesday">>

IndexIn(s, x) == CHOOSE i \in DOMAIN s : s[i] = x

\* agg({'view_count': ['count', 'mean', 'sum'], 'like_count': ['mean', 'sum']}).round(2)
hour_performance(df) ==
    LET hours == SetToSortedSeq(Range(Column(df, "hour")))
    IN  [k \in DOMAIN hours |->
            LET rows == RowsOf(df, "hour", hours[k])
            IN  [hour |-> hours[k],
                 video_count |-> Len(rows),
                 avg_views |-> Round2(SeriesMean(IntSeries(Column(rows, "view_count")))),
                 total_views |-> SumSeq(Column(rows, "view_count")),
                 avg_likes |-> Round2(SeriesMean(IntSeries(Column(rows, "like_count")))),
                 total_likes |-> SumSeq(Column(rows, "like_count")),
                 engagement_rate |-> Round2(SeriesMean(Column(rows, "engagement_rate")))]]

DayRow(df, day) ==
    LET rows        == RowsOf(df, "day_of_week", day)
        total_views == SumSeq(Column(rows, "view_count"))
        total_likes == SumSeq(Column(rows, "like_count"))
    IN  [day_of_week |-> day,
         video_count |-> Len(rows),
         avg_views |-> Round2(SeriesMean(IntSeries(Column(rows, "view_count")))),
         total_views |-> total_views,
         avg_likes |-> Round2(SeriesMean(IntSeries(Column(rows, "like_count")))),
         total_likes |-> total_likes,
         engagement_rate |->
             Round2(FMul(FDiv(Num(total_likes), Num(total_views)), Num(100)))]

\* the rows of df.groupby('day_of_week'), in the order of the group keys
DayGroups(df) ==
    LET present == Range(Column(df, "day_of_week"))
        days    == Pick(DaysAlphabetical,
                        SelectIdx(DaysAlphabetical, LAMBDA d : d \in present))
    IN  [k \in DOMAIN days |-> DayRow(df, days[k])]

\* the grouped rows left in the order of the group keys
SortedLikeGroups(rows) == rows

\* sort_values('day_order'): the rows by their day's place in day_order
SortedByDayOrder(rows) ==
    Pick(rows, Ascending([k \in DOMAIN rows |-> IndexIn(day_order, rows[k].day_of_week)]))

day_performance(df) == SortedByDayOrder(DayGroups(df))

monthly_trends(df) ==
    LET months == SetToSortedSeq({df[i].year * 12 + df[i].month - 1 : i \in DOMAIN df})
    IN  [k \in DOMAIN months |->
            LET y    == months[k] \div 12
                m    == (months[k] % 12) + 1
                rows == Pick(df, SelectIdx(df, LAMBDA r : r.year = y /\ r.month = m))
                total_views == SumSeq(Column(rows, "view_count"))
                total_likes == SumSeq(Column(rows, "like_count"))
            IN  [year |-> y,
                 month |-> m,
                 video_count |-> Len(rows),
                 avg_views |-> Round2(SeriesMean(IntSeries(Column(rows, "view_count")))),
                 total_views |-> total_views,
                 avg_likes |-> Round2(SeriesMean(IntSeries(Column(rows, "like_count")))),
                 total_likes |-> total_likes,
                 engagement_rate |->
                     Round2(FMul(FDiv(Num(total_likes), Num(total_views)), Num(100)))]]

\* the row positions nlargest(n, 'avg_views') keeps; avg_views has two decimals
NLargestAvgViews(n, rows) ==
    NLargest(n, [k \in DOMAIN rows |-> Trunc(FMul(rows[k].avg_views, Num(100)))])

\* f"{x:,.0f}"
Format0(x) == IF ~IsFinite(x) THEN x ELSE Num(RoundHalfEven(x.n, x.d))

Weekdays == {"Monday", "Tuesday", "Wednesday", "Thursday", "Friday"}
Weekend == {"Saturday", "Sunday"}

\* the comment on the volume of data chosen by the number of records
VolumeInsightByRecords(hours) ==
    LET total_videos == SumSeq(Column(hours, "video_count"))
    IN  IF total_videos < 10
           THEN "Limited data - analyze more videos for better insights"
        ELSE IF total_videos < 30
           THEN "Moderate data - patterns are emerging but more analysis needed"
        ELSE "Good data coverage - patterns are reliable"

\* lines 442-449: total_videos is the number of rows of hour_performance
VolumeInsight(hours) ==
    LET total_videos == Len(hours)
    IN  IF total_videos < 10
           THEN "Limited data - analyze more videos for better insights"
        ELSE IF total_videos < 30
           THEN "Moderate data - patterns are emerging but more analysis needed"
        ELSE "Good data coverage - patterns are reliable"

_generate_temporal_insights(hours, days, recent_videos, older_videos) ==
    LET best_hour   == hours[NLargestAvgViews(1, hours)[1]]
        best_day    == days[NLargestAvgViews(1, days)[1]]
        hourly_mean == SeriesMean(Column(hours, "avg_views"))
        peak_hours  == Pick(hours, SelectIdx(hours,
                           LAMBDA h : FGt(h.avg_views, FMul(hourly_mean, Frac(12, 10)))))
        weekday_avg == SeriesMean(Column(
                           Pick(days, SelectIdx(days, LAMBDA d : d.day_of_week \in Weekdays)),
                           "avg_views"))
        weekend_avg == SeriesMean(Column(
                           Pick(days, SelectIdx(days, LAMBDA d : d.day_of_week \in Weekend)),
                           "avg_views"))
        recent_avg  == SeriesMean(IntSeries(Column(recent_videos, "view_count")))
        older_avg   == SeriesMean(IntSeries(Column(older_videos, "view_count")))
    IN  << [text |-> "Best posting hour", hour |-> best_hour.hour,
            avg_views |-> Format0(best_hour.avg_views)],
           [text |-> "Best posting day", day |-> best_day.day_of_week,
            avg_views |-> Format0(best_day.avg_views)] >>
        \o (IF Len(peak_hours) > 0
            THEN <<[text |-> "Peak performance hours", hours |-> Column(peak_hours, "hour")]>>
            ELSE <<>>)
        \o << IF FGt(weekend_avg, FMul(weekday_avg, Frac(11, 10)))
                 THEN "Weekend content performs better - consider Saturday/Sunday posting"
              ELSE IF FGt(weekday_avg, FMul(weekend_avg, Frac(11, 10)))
                 THEN "Weekday content performs better - focus on Monday-Friday"
              ELSE "No significant difference between weekday and weekend performance" >>
        \o (IF Len(recent_videos) > 0 /\ Len(older_videos) > 0
            THEN << IF FGt(recent_avg, FMul(older_avg, Frac(12, 10)))
                       THEN "Recent content performs significantly better - focus on current trends"
                    ELSE IF FGt(older_avg, FMul(recent_avg, Frac(12, 10)))
                       THEN "Older content performs better - evergreen content works well"
                    ELSE "Consistent performance across time periods" >>
            ELSE <<>>)
        \o << VolumeInsight(hours) >>

BestRows(rows, key) ==
    LET idx == NLargestAvgViews(3, rows)
    IN  [k \in DOMAIN idx |->
            [f \in {key, "avg_views", "engagement_rate"} |-> rows[idx[k]][f]]]

\* df[df['days_ago'] <= 30]
RecentVideos(df) == Pick(df, SelectIdx(df, LAMBDA r : r.days_ago <= 30))

\* the rows of 30 days and more
OlderVideosFromThirty(df) == Pick(df, SelectIdx(df, LAMBDA r : r.days_ago >= 30))

\* df[df['days_ago'] > 30]
OlderVideos(df) == Pick(df, SelectIdx(df, LAMBDA r : r.days_ago > 30))

analyze_temporal_patterns(vs, t_now) ==
    IF vs = <<>> THEN EmptyResult
    ELSE LET df     == WithTimeColumns(vs, t_now)
             hours  == hour_performance(df)
             days   == day_performance(df)
             recent_videos == RecentVideos(df)
             older_videos  == OlderVideos(df)
         IN  [hour_performance |-> hours,
              day_performance |-> days,
              monthly_trends |-> monthly_trends(df),
              best_posting_times |->
                  [best_hours |-> BestRows(hours, "hour"),
                   best_days |-> BestRows(days, "day_of_week")],
              recent_vs_older |->
                  [recent_videos_count |-> Len(recent_videos),
                   older_videos_count |-> Len(older_videos),
                   recent_avg_views |->
                       IF Len(recent_videos) > 0
                       THEN SeriesMean(IntSeries(Column(recent_videos, "view_count")))
                       ELSE Num(0),
                   older_avg_views |->
                       IF Len(older_videos) > 0
                       THEN SeriesMean(IntSeries(Column(older_videos, "view_count")))
                       ELSE Num(0)],
              insights |-> _generate_temporal_insights(hours, days, recent_videos, older_videos)]

---------------------------------------------------------------------------
(* _calculate_opportunity_score                                            *)

\* dict.get(key, default)
Get(dict, key, default) == IF key \in DOMAIN dict THEN dict[key] ELSE default

\* the adjustments with the size of the market read from total_channels
ScoreByChannelCount(competitor_data, avg_views, avg_engagement) ==
    LET concentration ==
            Get(Get(competitor_data, "market_concentration", <<>>), "concentration_level", "Medium")
        score1 == 5 + (IF concentration = "Low" THEN 2
                       ELSE IF concentration = "High" THEN -1 ELSE 0)
        score2 == score1 + (IF FGt(avg_engagement, Num(5)) THEN 2
                            ELSE IF FGt(avg_engagement, Num(2)) THEN 1 ELSE -1)
        total_competitors == Get(competitor_data, "total_channels", 0)
    IN  score2 + (IF total_competitors < 5 THEN 1
                  ELSE IF total_competitors > 15 THEN -1 ELSE 0)

\* score as lines 996-1018 leave it, before the clamp of line 1020
ScoreBeforeClamp(competitor_data, avg_views, avg_engagement) ==
    LET concentration ==
            Get(Get(competitor_data, "market_concentration", <<>>), "concentration_level", "Medium")
        score1 == 5 + (IF concentration = "Low" THEN 2
                       ELSE IF concentration = "High" THEN -1 ELSE 0)
        score2 == score1 + (IF FGt(avg_engagement, Num(5)) THEN 2
                            ELSE IF FGt(avg_engagement, Num(2)) THEN 1 ELSE -1)
        total_competitors == Len(Get(competitor_data, "top_competitors", <<>>))
    IN  score2 + (IF total_competitors < 5 THEN 1
                  ELSE IF total_competitors > 15 THEN -1 ELSE 0)

\* the adjustments without the final clamp, the penalty growing with the
\* number of competitors
OpportunityScoreUnclamped(competitor_data, avg_views, avg_engagement) ==
    LET concentration ==
            Get(Get(competitor_data, "market_concentration", <<>>), "concentration_level", "Medium")
        total_competitors == Len(Get(competitor_data, "top_competitors", <<>>))
    IN  5 + (IF concentration = "Low" THEN 2 ELSE IF concentration = "High" THEN -1 ELSE 0)
          + (IF FGt(avg_engagement, Num(5)) THEN 2
             ELSE IF FGt(avg_engagement, Num(2)) THEN 1 ELSE -1)
          + (IF total_competitors < 5 THEN 1
             ELSE IF total_competitors > 15 THEN -(total_competitors \div 5) ELSE 0)

_calculate_opportunity_score(competitor_data, avg_views, avg_engagement) ==
    Max(1, Min(10, ScoreBeforeClamp(competitor_data, avg_views, avg_engagement)))

---------------------------------------------------------------------------
(* analyze_keywords                                                        *)

\* the maximal runs of \w characters of s
WordRuns(s) == RunsBetween(s, {i \in DOMAIN s : ~IsWordChar(s[i])})

\* re.findall(r'\b[a-zA-Z]{n,}\b', s): a run of letters between two word
\* boundaries is a whole run of \w characters made of letters only
AlphaTokens(s, n) ==
    LET runs == WordRuns(s)
    IN  Pick(runs, SelectIdx(runs,
            LAMBDA w : Len(w) >= n /\ \A i \in DOMAIN w : IsAlpha(w[i])))

\* Counter(words).items(): each word with its count, in first-occurrence order
Counter(words) ==
    LET ws == Distinct(words)
    IN  [k \in DOMAIN ws |->
            [word |-> ws[k], count |-> Cardinality({i \in DOMAIN words : words[i] = ws[k]})]]

\* sorted(items, key=count, reverse=True)[:n] and Counter.most_common(n):
\* equal counts keep their order
\* the first n items, whatever their counts
MostCommonAsHead(items, n) == HeadN(items, n)

MostCommon(items, n) == Pick(items, NLargest(n, Column(items, "count")))

stop_words ==
    {<<"t", "h", "e">>, <<"a", "n", "d">>, <<"f", "o", "r">>, <<"a", "r", "e">>,
     <<"b", "u", "t">>, <<"n", "o", "t">>, <<"y", "o", "u">>, <<"a", "l", "l">>,
     <<"c", "a", "n">>, <<"h", "a", "d">>, <<"h", "e", "r">>, <<"w", "a", "s">>,
     <<"o", "n", "e">>, <<"o", "u", "r">>, <<"o", "u", "t">>, <<"d", "a", "y">>,
     <<"g", "e", "t">>, <<"h", "a", "s">>, <<"h", "i", "m">>, <<"h", "i", "s">>,
     <<"h", "o", "w">>, <<"i", "t", "s">>, <<"m", "a", "y">>, <<"n", "e", "w">>,
     <<"n", "o", "w">>, <<"o", "l", "d">>, <<"s", "e", "e">>, <<"t", "w", "o">>,
     <<"w", "h", "o">>, <<"b", "o", "y">>, <<"d", "i", "d">>, <<"m", "a", "n">>,
     <<"m", "e", "n">>, <<"p", "u", "t">>, <<"s", "a", "y">>, <<"s", "h", "e">>,
     <<"t", "o", "o">>, <<"u", "s", "e">>, <<"w", "a", "y">>, <<"w", "i", "l", "l">>,
     <<"w", "i", "t", "h">>, <<"t", "h", "i", "s">>, <<"t", "h", "a", "t">>,
     <<"f", "r", "o", "m">>, <<"t", "h", "e", "y">>, <<"k", "n", "o", "w">>,
     <<"w", "a", "n", "t">>, <<"b", "e", "e", "n">>, <<"g", "o", "o", "d">>,
     <<"m", "u", "c", "h">>, <<"s", "o", "m", "e">>, <<"t", "i", "m", "e">>,
     <<"v", "e", "r", "y">>, <<"w", "h", "e", "n">>, <<"c", "o", "m", "e">>,
     <<"h", "e", "r", "e">>, <<"j", "u", "s", "t">>, <<"l", "i", "k", "e">>,
     <<"l", "o", "n", "g">>, <<"m", "a", "k", "e">>, <<"m", "a", "n", "y">>,
     <<"o", "v", "e", "r">>, <<"s", "u", "c", "h">>, <<"t", "a", "k", "e">>,
     <<"t", "h", "a", "n">>, <<"t", "h", "e", "m">>, <<"w", "e", "l", "l">>,
     <<"w", "e", "r", "e">>, <<"w", "h", "a", "t">>, <<"y", "e", "a", "r">>,
     <<"y", "o", "u", "r">>, <<"a", "b", "o", "u", "t">>, <<"a", "f", "t", "e", "r">>,
     <<"a", "g", "a", "i", "n">>, <<"b", "e", "f", "o", "r", "e">>,
     <<"c", "o", "u", "l", "d">>, <<"e", "v", "e", "r", "y">>, <<"f", "i", "r", "s", "t">>,
     <<"g", "r", "e", "a", "t">>, <<"m", "i", "g", "h", "t">>, <<"n", "e", "v", "e", "r">>,
     <<"o", "t", "h", "e", "r">>, <<"p", "l", "a", "c", "e">>, <<"r", "i", "g", "h", "t">>,
     <<"s", "h", "o", "u", "l", "d">>, <<"s", "m", "a", "l", "l">>,
     <<"s", "t", "i", "l", "l">>, <<"t", "h", "i", "n", "k">>, <<"w", "h", "e", "r", "e">>,
     <<"w", "h", "i", "c", "h">>, <<"w", "h", "i", "l", "e">>, <<"w", "o", "r", "l", "d">>,
     <<"w", "o", "u", "l", "d">>, <<"w", "r", "i", "t", "e">>, <<"b", "e", "i", "n", "g">>,
     <<"t", "h", "o", "s", "e">>, <<"u", "n", "d", "e", "r">>, <<"w", "a", "t", "e", "r">>}

_calculate_similarity(word1, word2) ==
    IF word1 = word2 THEN Num(1)
    ELSE LET common_chars == Range(word1) \cap Range(word2)
             total_chars  == Range(word1) \cup Range(word2)
         IN  IF total_chars = {} THEN Num(0)
             ELSE Frac(Cardinality(common_chars), Cardinality(total_chars))

InSeq(x, s) == \E i \in DOMAIN s : s[i] = x

\* the parts a word is related to, by substring alone
RelatedPartBySubstring(word, keyword_parts) ==
    SelectIdx(keyword_parts,
        LAMBDA part : Len(part) > 3 /\ (Contains(part, word) \/ Contains(word, part)))

RelatedPart(word, keyword_parts) ==
    SelectIdx(keyword_parts,
        LAMBDA part : Len(part) > 3 /\ (\/ Contains(part, word)
                                        \/ Contains(word, part)
                                        \/ FGt(_calculate_similarity(word, part), Frac(6, 10))))

_find_keyword_variations(keyword, top_words) ==
    LET keyword_parts == Split(Lower(keyword))
        related == SelectIdx(top_words,
                       LAMBDA t : ~InSeq(t.word, keyword_parts)
                                  /\ RelatedPart(t.word, keyword_parts) # <<>>)
        variations ==
            [k \in DOMAIN related |->
                LET t == top_words[related[k]]
                IN  [word |-> t.word,
                     frequency |-> t.count,
                     related_to |-> keyword_parts[RelatedPart(t.word, keyword_parts)[1]],
                     suggestion |-> keyword \o <<" ">> \o t.word]]
    IN  Pick(variations, NLargest(10, Column(variations, "frequency")))

Truncated(title, n) ==
    IF Len(title) > n THEN SubSeq(title, 1, n) \o <<".", ".", ".">> ELSE title

\* the phrase of one title, <<>> when the title yields none
LongTailPhrase(title, keyword) ==
    LET title_lower == Lower(title)
        words       == Split(title_lower)
        hits        == SelectIdx(words, LAMBDA w : Contains(w, Lower(keyword)))
    IN  IF ~Contains(title_lower, Lower(keyword)) \/ hits = <<>> THEN <<>>
        ELSE LET keyword_index == hits[1] - 1
                 start == Max(0, keyword_index - 1)
                 end   == Min(Len(words), keyword_index + 3)
             IN  Join(SubSeq(words, start + 1, end))

RECURSIVE LongTailFrom(_, _, _)
LongTailFrom(titles, keyword, long_tail) ==
    IF titles = <<>> THEN long_tail
    ELSE LET phrase == LongTailPhrase(Head(titles), keyword)
         IN  LongTailFrom(Tail(titles), keyword,
                 IF /\ phrase # <<>>
                    /\ Len(Split(phrase)) >= 2
                    /\ ~InSeq(phrase, Column(long_tail, "phrase"))
                 THEN Append(long_tail,
                             [phrase |-> phrase, title |-> Truncated(Head(titles), 50)])
                 ELSE long_tail)

\* every phrase found, however many
LongTailUncut(vs, keyword) == LongTailFrom(Column(vs, "title"), keyword, <<>>)

_extract_long_tail_keywords(vs, keyword) ==
    HeadN(LongTailFrom(Column(vs, "title"), keyword, <<>>), 15)

_analyze_keyword_performance(vs, top_words) ==
    LET WordVideos(word) ==
            Pick(vs, SelectIdx(vs, LAMBDA r : Contains(Lower(r.title), word)))
        listed == HeadN(top_words, 10)
        first  == Pick(listed, SelectIdx(listed, LAMBDA t : Len(WordVideos(t.word)) > 0))
    IN  [k \in DOMAIN first |->
            LET word_videos == WordVideos(first[k].word)
                engagement ==
                    SeriesMean([i \in DOMAIN word_videos |->
                        FMul(FDiv(Num(word_videos[i].like_count),
                                  Num(word_videos[i].view_count)), Num(100))])
            IN  [word |-> first[k].word,
                 frequency |-> first[k].count,
                 avg_views |-> Trunc(SeriesMean(IntSeries(Column(word_videos, "view_count")))),
                 avg_likes |-> Trunc(SeriesMean(IntSeries(Column(word_videos, "like_count")))),
                 engagement_rate |-> Round2(engagement),
                 video_count |-> Len(word_videos)]]

_generate_seo_suggestions(keyword, top_words, variations) ==
    LET first == HeadN(top_words, 5)
        high_freq_words ==
            Column(Pick(first, SelectIdx(first,
                       LAMBDA t : t.count > 2 /\ ~Contains(Lower(keyword), t.word))), "word")
    IN  (IF high_freq_words # <<>>
         THEN <<[text |-> "Consider using high-frequency words",
                 words |-> HeadN(high_freq_words, 3)]>>
         ELSE <<>>)
        \o (IF variations # <<>>
            THEN <<[text |-> "Try keyword variations",
                    words |-> Column(HeadN(variations, 3), "word")]>>
            ELSE <<>>)
        \o <<"Focus on long-tail keywords for less competition",
             "Include numbers in titles (tutorials, tips, etc.)",
             "Use action words: 'learn', 'master', 'build', 'create'">>
        \o (IF Contains(Lower(keyword), <<"t", "u", "t", "o", "r", "i", "a", "l">>)
            THEN <<"Add skill level indicators: 'beginner', 'advanced', 'complete'">>
            ELSE <<>>)
        \o (IF \/ Contains(Lower(keyword), <<"p", "r", "o", "g", "r", "a", "m", "m", "i", "n", "g">>)
               \/ Contains(Lower(keyword), <<"c", "o", "d", "i", "n", "g">>)
            THEN <<"Include programming language names",
                   "Use project-based keywords: 'build', 'create', 'project'">>
            ELSE <<>>)

TrendingExcluded ==
    {<<"t", "u", "t", "o", "r", "i", "a", "l">>, <<"p", "r", "o", "g", "r", "a", "m", "m", "i", "n", "g">>, <<"l", "e", "a", "r", "n">>, <<"c", "o", "d", "i", "n", "g">>, <<"p", "y", "t", "h", "o", "n">>, <<"j", "a", "v", "a", "s", "c", "r", "i", "p", "t">>}

RECURSIVE Flatten(_)
Flatten(seqs) == IF seqs = <<>> THEN <<>> ELSE Head(seqs) \o Flatten(Tail(seqs))

\* the trending words for one outcome of sort_values('published_at',
\* ascending=False): order lists the record positions, latest first
TrendingSortedAs(vs, order) ==
    LET recent_videos == HeadN(Pick(vs, order), 10)
        words == Flatten([i \in DOMAIN recent_videos |->
                     LET found == AlphaTokens(Lower(recent_videos[i].title), 4)
                     IN  Pick(found, SelectIdx(found, LAMBDA w : w \notin TrendingExcluded))])
    IN  MostCommon(Counter(words), 5)

_analyze_trending_keywords(vs) ==
    {TrendingSortedAs(vs, order) :
        order \in DescendingOrders([i \in DOMAIN vs |-> HoursOf(vs[i].published_at)])}

analyze_keywords(vs, keyword) ==
    IF vs = <<>> THEN {EmptyResult}
    ELSE LET all_titles == Join([i \in DOMAIN vs |-> Lower(vs[i].title)])
             words      == AlphaTokens(all_titles, 3)
             word_freq  == Counter(words)
             meaningful_words ==
                 Pick(word_freq, SelectIdx(word_freq,
                     LAMBDA t : t.word \notin stop_words /\ Len(t.word) > 2))
             top_words  == MostCommon(meaningful_words, 20)
             keyword_variations == _find_keyword_variations(keyword, top_words)
         IN  {[search_keyword |-> keyword,
               top_keywords |-> top_words,
               keyword_variations |-> keyword_variations,
               long_tail_keywords |-> _extract_long_tail_keywords(vs, keyword),
               keyword_performance |-> _analyze_keyword_performance(vs, top_words),
               seo_suggestions |->
                   _generate_seo_suggestions(keyword, top_words, keyword_variations),
               trending_keywords |-> trending,
               total_words_analyzed |-> Len(words),
               unique_words |-> Len(meaningful_words)] :
                  trending \in _analyze_trending_keywords(vs)}

---------------------------------------------------------------------------
(* analyze_titles                                                          *)

\* re.sub(r'[^\w\s]', ' ', title.lower())
CleanTitle(title) ==
    LET lower == Lower(title)
    IN  [i \in DOMAIN lower |->
            IF IsWordChar(lower[i]) \/ IsSpace(lower[i]) THEN lower[i] ELSE " "]

_extract_common_words(titles) ==
    LET all_words == Flatten([i \in DOMAIN titles |->
                         LET words == Split(CleanTitle(titles[i]))
                         IN  Pick(words, SelectIdx(words, LAMBDA w : Len(w) > 2))])
    IN  MostCommon(Counter(all_words), 10)

_extract_common_phrases(titles) ==
    LET all_phrases == Flatten([i \in DOMAIN titles |->
                           LET words   == Split(CleanTitle(titles[i]))
                               phrases == [k \in 1..(Len(words) - 1) |->
                                              words[k] \o <<" ">> \o words[k + 1]]
                           IN  Pick(phrases, SelectIdx(phrases, LAMBDA ph : Len(ph) > 5))])
    IN  MostCommon(Counter(all_phrases), 8)

\* re.compile(r'[^\w\s]').findall(title)
SymbolsOf(title) ==
    Pick(title, SelectIdx(title, LAMBDA c : ~IsWordChar(c) /\ ~IsSpace(c)))

_analyze_emojis(titles) ==
    LET emoji_count == Cardinality({i \in DOMAIN titles : SymbolsOf(titles[i]) # <<>>})
        emojis      == Flatten([i \in DOMAIN titles |-> SymbolsOf(titles[i])])
    IN  [titles_with_emojis |-> emoji_count,
         emoji_percentage |-> FMul(Frac(emoji_count, Len(titles)), Num(100)),
         most_common_emojis |-> MostCommon(Counter(emojis), 5)]

TutorialWordsOfTitles ==
    {<<"t", "u", "t", "o", "r", "i", "a", "l">>, <<"h", "o", "w", " ", "t", "o">>, <<"c", "o", "m", "o">>, <<"a", "p", "r", "e", "n", "d", "a">>, <<"l", "e", "a", "r", "n">>}

HasChar(title, c) == \E i \in DOMAIN title : title[i] = c

\* a count of titles as a percentage of all of them
PatternShare(titles, Test(_)) ==
    LET total == Len(titles)
    IN  IF total > 0
        THEN FMul(Frac(Cardinality({i \in DOMAIN titles : Test(titles[i])}), total), Num(100))
        ELSE Num(0)

_analyze_title_patterns(titles) ==
    [tutorial_pattern |->
         PatternShare(titles, LAMBDA t : ContainsAny(Lower(t), TutorialWordsOfTitles)),
     number_pattern |-> PatternShare(titles, LAMBDA t : HasDigit(t)),
     question_pattern |-> PatternShare(titles, LAMBDA t : HasChar(t, "?")),
     exclamation_pattern |-> PatternShare(titles, LAMBDA t : HasChar(t, "!")),
     bracket_pattern |-> PatternShare(titles, LAMBDA t : HasChar(t, "[") /\ HasChar(t, "]")),
     parentheses_pattern |->
         PatternShare(titles, LAMBDA t : HasChar(t, "(") /\ HasChar(t, ")"))]

analyze_titles(vs) ==
    IF vs = <<>> THEN EmptyResult
    ELSE LET top_performers ==
                 Pick(vs, NLargest(Max(1, Len(vs) \div 5), Column(vs, "view_count")))
             titles == Column(top_performers, "title")
         IN  [total_titles_analyzed |-> Len(titles),
              avg_title_length |->
                  Frac(SumSeq([i \in DOMAIN titles |-> Len(titles[i])]), Len(titles)),
              most_common_words |-> _extract_common_words(titles),
              most_common_phrases |-> _extract_common_phrases(titles),
              emoji_usage |-> _analyze_emojis(titles),
              title_patterns |-> _analyze_title_patterns(titles),
              successful_titles |-> HeadN(titles, 5)]

---------------------------------------------------------------------------
(* generate_executive_report                                               *)

\* the outcome of a call that raised instead of returning
Raised(exception) == [raised |-> exception]
IsRaised(outcome) == "raised" \in DOMAIN outcome

\* bool(x) of a dict or a list
Truthy(x) == x # <<>> /\ DOMAIN x # {}

DigitChars == <<"0", "1", "2", "3", "4", "5", "6", "7", "8", "9">>

\* str(n) of n >= 0
RECURSIVE IntToStr(_)
IntToStr(n) ==
    IF n < 10 THEN <<DigitChars[n + 1]>>
    ELSE Append(IntToStr(n \div 10), DigitChars[(n % 10) + 1])

\* f"{n:,}" of n >= 0: a comma before every group of three digits
WithCommas(n) ==
    LET digits == IntToStr(n)
        len    == Len(digits)
    IN  Flatten([i \in DOMAIN digits |->
            IF i > 1 /\ (len - i + 1) % 3 = 0 THEN <<",", digits[i]>> ELSE <<digits[i]>>])

_get_strategic_recommendation(opportunity_score, competition_level, market_size) ==
    IF opportunity_score >= 8
    THEN "Excellent opportunity - market is ripe for new entrants with high potential for growth"
    ELSE IF opportunity_score >= 6
    THEN "Good opportunity - focus on differentiation and unique value proposition"
    ELSE IF opportunity_score >= 4
    THEN "Moderate opportunity - requires careful strategy and consistent execution"
    ELSE "Challenging market - consider niche sub-topics or different approach"

\* published_at > (now - 30 days).strftime('%Y-%m-%d'): the timestamp string
\* is behind the date string only when its date is an earlier one
IsRecent(t, t_now) ==
    DaysFromCivil(t.year, t.month, t.day)
        >= DaysFromCivil(t_now.year, t_now.month, t_now.day) - 30

\* Series.max() of a non-empty column of integers
SeriesMax(values) == CHOOSE v \in Range(values) : \A w \in Range(values) : v >= w

_generate_executive_summary(vs, keyword, competitor_data, t_now) ==
    LET total_views == SumSeq(Column(vs, "view_count"))
        avg_views   == SeriesMean(IntSeries(Column(vs, "view_count")))
        avg_engagement ==
            SeriesMean([i \in DOMAIN vs |->
                FMul(FDiv(Num(vs[i].like_count), Num(vs[i].view_count)), Num(100))])
        market_size == IF total_views > 100000000 THEN "Large"
                       ELSE IF total_views > 10000000 THEN "Medium" ELSE "Small"
        concentration ==
            Get(Get(competitor_data, "market_concentration", <<>>),
                "concentration_level", "Unknown")
        competition_level == IF concentration = "High" THEN "High"
                             ELSE IF concentration = "Medium" THEN "Medium" ELSE "Low"
        opportunity_score ==
            _calculate_opportunity_score(competitor_data, avg_views, avg_engagement)
    IN  [market_overview |->
             [keyword |-> keyword,
              market_size |-> market_size,
              total_views_analyzed |-> WithCommas(total_views),
              average_views |-> WithCommas(Format0(avg_views).n),
              competition_level |-> competition_level,
              opportunity_score |-> IntToStr(opportunity_score) \o <<"/", "1", "0">>],
         key_findings |->
             <<[text |-> "Market has major players",
                count |-> Len(Get(competitor_data, "top_competitors", <<>>))],
               [text |-> "Average engagement rate", rate |-> Format1(avg_engagement)],
               [text |-> "Top performer has views",
                views |-> WithCommas(SeriesMax(Column(vs, "view_count")))],
               [text |-> "Content freshness: recent videos",
                count |-> Cardinality({i \in DOMAIN vs : IsRecent(vs[i].published_at, t_now)})]>>,
         strategic_recommendation |->
             _get_strategic_recommendation(opportunity_score, competition_level, market_size)]

_generate_actionable_insights(title_data, competitor_data, temporal_data, keyword_data) ==
    (IF Truthy(Get(title_data, "common_words", <<>>))
     THEN <<[category |-> "Title Optimization",
             priority |-> "High",
             insight |-> [text |-> "Use these high-performing words",
                          words |-> Column(HeadN(title_data.common_words, 3), "word")],
             action |-> "Include these words in your next 5 video titles",
             expected_impact |-> "15-25% increase in discoverability"]>>
     ELSE <<>>)
    \o (IF Truthy(Get(keyword_data, "top_keywords", <<>>))
        THEN LET top_keyword == keyword_data.top_keywords[1]
             IN  <<[category |-> "SEO Strategy",
                    priority |-> "High",
                    insight |-> [text |-> "appears times in successful videos",
                                 word |-> top_keyword.word, count |-> top_keyword.count],
                    action |-> [text |-> "Create content series around",
                                word |-> top_keyword.word],
                    expected_impact |-> "20-30% increase in search visibility"]>>
        ELSE <<>>)
    \o (IF Truthy(Get(temporal_data, "best_posting_times", <<>>))
        THEN <<[category |-> "Posting Strategy",
                priority |-> "Medium",
                insight |-> [text |-> "Best performance",
                             day |-> temporal_data.best_posting_times.best_days[1].day_of_week,
                             hour |-> temporal_data.best_posting_times.best_hours[1].hour],
                action |-> "Schedule your next 3 videos for this time slot",
                expected_impact |-> "10-20% increase in initial views"]>>
        ELSE <<>>)
    \o (IF Truthy(Get(competitor_data, "top_competitors", <<>>))
        THEN LET top_competitor == competitor_data.top_competitors[1]
             IN  <<[category |-> "Competitive Analysis",
                    priority |-> "High",
                    insight |-> [text |-> "dominates with market share",
                                 channel |-> top_competitor.channel,
                                 market_share |-> Format1(top_competitor.market_share)],
                    action |-> "Study their content strategy and identify gaps",
                    expected_impact |-> "Better positioning and unique value proposition"]>>
        ELSE <<>>)
    \o (IF /\ Truthy(Get(title_data, "patterns", <<>>))
           /\ FGt(Get(title_data.patterns, "tutorial_pattern", Num(0)), Num(50))
        THEN <<[category |-> "Content Format",
                priority |-> "Medium",
                insight |-> [text |-> "Tutorial content performs well",
                             share |-> Format0(title_data.patterns.tutorial_pattern)],
                action |-> "Create more step-by-step tutorial content",
                expected_impact |-> "Higher engagement and retention"]>>
        ELSE <<>>)

TitleFormulas(patterns) ==
    (IF FGt(Get(patterns, "tutorial_pattern", Num(0)), Num(40))
     THEN <<"'[Skill] Tutorial for [Audience]'">> ELSE <<>>)
    \o (IF FGt(Get(patterns, "number_pattern", Num(0)), Num(50))
        THEN <<"'[Number] [Topic] Tips/Tricks'">> ELSE <<>>)
    \o (IF FGt(Get(patterns, "question_pattern", Num(0)), Num(20))
        THEN <<"'How to [Action] [Topic]?'">> ELSE <<>>)

_generate_content_strategy(title_data, keyword_data, competitor_data, temporal_data) ==
    [content_themes |->
         IF Truthy(Get(keyword_data, "top_keywords", <<>>))
         THEN LET top_keywords == HeadN(keyword_data.top_keywords, 5)
              IN  [k \in DOMAIN top_keywords |->
                      [text |-> "Create content around",
                       word |-> top_keywords[k].word, count |-> top_keywords[k].count]]
         ELSE <<>>,
     posting_schedule |->
         IF Truthy(Get(temporal_data, "best_posting_times", <<>>))
         THEN [optimal_day |-> temporal_data.best_posting_times.best_days[1].day_of_week,
               optimal_hour |->
                   IntToStr(temporal_data.best_posting_times.best_hours[1].hour)
                       \o <<":", "0", "0">>,
               frequency |-> IF Len(Get(competitor_data, "top_competitors", <<>>)) > 5
                             THEN "Weekly" ELSE "Bi-weekly"]
         ELSE <<>>,
     title_formulas |->
         IF Truthy(Get(title_data, "patterns", <<>>))
         THEN TitleFormulas(title_data.patterns) ELSE <<>>,
     keyword_strategy |->
         IF Truthy(Get(keyword_data, "long_tail_keywords", <<>>))
         THEN [primary_keywords |-> Column(HeadN(keyword_data.top_keywords, 3), "word"),
               long_tail_opportunities |->
                   Column(HeadN(keyword_data.long_tail_keywords, 5), "phrase"),
               trending_keywords |->
                   Column(Get(keyword_data, "trending_keywords", <<>>), "word")]
         ELSE <<>>,
     differentiation_tactics |->
         IF Truthy(Get(competitor_data, "market_concentration", <<>>))
         THEN IF competitor_data.market_concentration.concentration_level = "High"
              THEN <<"Focus on niche sub-topics with less competition",
                     "Create unique content formats (series, challenges)",
                     "Target underserved audience segments",
                     "Develop signature teaching style">>
              ELSE <<"Build consistent content schedule",
                     "Focus on quality over quantity",
                     "Engage with community regularly",
                     "Create evergreen content">>
         ELSE <<>>]

\* called with the competitor data of a non-empty record list, which always
\* holds market_concentration (the local concentration is bound)
_generate_competitive_intelligence(competitor_data, keyword_data) ==
    LET concentration == competitor_data.market_concentration.concentration_level
        leaders == HeadN(Get(competitor_data, "top_competitors", <<>>), 3)
    IN  [market_leaders |->
             [i \in DOMAIN leaders |->
                 [rank |-> i,
                  channel |-> leaders[i].channel,
                  market_share |-> Format1(leaders[i].market_share),
                  strength |-> Format0(leaders[i].avg_views),
                  strategy |-> IF leaders[i].video_count > 5
                               THEN "High volume" ELSE "Quality focused"]],
         content_gaps |->
             LET trending == HeadN(Column(Get(keyword_data, "trending_keywords", <<>>), "word"), 3)
             IN  [k \in DOMAIN trending |->
                     [text |-> "Underutilized trending keyword", word |-> trending[k]]],
         opportunity_areas |->
             IF concentration = "High"
             THEN <<"Niche sub-topics with less competition",
                    "Different content formats (shorts, live streams)",
                    "Target specific skill levels (absolute beginner, advanced)",
                    "Regional or language-specific content">>
             ELSE <<"Consistent content creation",
                    "Community building and engagement",
                    "Cross-platform content strategy",
                    "Collaboration opportunities">>,
         threat_assessment |->
             [competition_level |-> concentration,
              barrier_to_entry |-> IF concentration = "High" THEN "High" ELSE "Medium",
              market_saturation |->
                  IF Len(Get(competitor_data, "top_competitors", <<>>)) > 10
                  THEN "High" ELSE "Medium",
              recommended_approach |->
                  IF concentration = "High" THEN "Differentiation" ELSE "Consistency"]]

\* Series.quantile(q) for q = tenths / 10: linear interpolation between the
\* two order statistics around position q * (n - 1)
Quantile(values, tenths) ==
    LET sorted == Pick(values, Ascending(values))
        pos    == tenths * (Len(values) - 1)
        lo     == pos \div 10
        part   == pos % 10
    IN  IF part = 0 THEN Num(sorted[lo + 1])
        ELSE FAdd(Num(sorted[lo + 1]),
                  FMul(Num(sorted[lo + 2] - sorted[lo + 1]), Frac(part, 10)))

_generate_performance_benchmarks(vs) ==
    LET views == Column(vs, "view_count")
        rate  == FMul(FDiv(Num(SumSeq(Column(vs, "like_count"))), Num(SumSeq(views))),
                      Num(100))
    IN  [view_benchmarks |->
             [excellent |-> Trunc(Quantile(views, 9)),
              good |-> Trunc(Quantile(views, 7)),
              average |-> Trunc(SeriesMean(IntSeries(views))),
              poor |-> Trunc(Quantile(views, 3))],
         engagement_benchmarks |->
             [excellent |-> FMul(rate, Num(2)),
              good |-> FMul(rate, Frac(3, 2)),
              average |-> rate,
              poor |-> FMul(rate, Frac(1, 2))],
         content_frequency |->
             [top_performers |->
                  Cardinality({i \in DOMAIN views : FGt(Num(views[i]), Quantile(views, 8))}),
              total_analyzed |-> Len(vs)]]

\* the steps with the medium-priority ones numbered from 1 again
NextStepsRenumbered(actionable_insights, content_strategy) ==
    LET WithPriority(p) ==
            Pick(actionable_insights,
                 SelectIdx(actionable_insights, LAMBDA x : x.priority = p))
        high_priority   == HeadN(WithPriority("High"), 3)
        medium_priority == HeadN(WithPriority("Medium"), 2)
    IN  [i \in DOMAIN high_priority |->
            [step |-> i, priority |-> "High", action |-> high_priority[i].action,
             timeline |-> "This week", category |-> high_priority[i].category]]
        \o [i \in DOMAIN medium_priority |->
               [step |-> i, priority |-> "Medium", action |-> medium_priority[i].action,
                timeline |-> "Next 2 weeks", category |-> medium_priority[i].category]]
        \o (IF content_strategy.content_themes # <<>>
            THEN <<[step |-> Len(high_priority) + Len(medium_priority) + 1,
                    priority |-> "Medium",
                    action |-> [text |-> "Plan content around",
                                theme |-> content_strategy.content_themes[1]],
                    timeline |-> "Next month", category |-> "Content Planning"]>>
            ELSE <<>>)

_generate_next_steps(actionable_insights, content_strategy) ==
    LET WithPriority(p) ==
            Pick(actionable_insights,
                 SelectIdx(actionable_insights, LAMBDA x : x.priority = p))
        high_priority   == HeadN(WithPriority("High"), 3)
        medium_priority == HeadN(WithPriority("Medium"), 2)
        high_steps ==
            [i \in DOMAIN high_priority |->
                [step |-> i, priority |-> "High", action |-> high_priority[i].action,
                 timeline |-> "This week", category |-> high_priority[i].category]]
        medium_steps ==
            [i \in DOMAIN medium_priority |->
                [step |-> Len(high_steps) + i, priority |-> "Medium",
                 action |-> medium_priority[i].action,
                 timeline |-> "Next 2 weeks", category |-> medium_priority[i].category]]
        next_steps == high_steps \o medium_steps
    IN  next_steps
        \o (IF content_strategy.content_themes # <<>>
            THEN <<[step |-> Len(next_steps) + 1, priority |-> "Medium",
                    action |-> [text |-> "Plan content around",
                                theme |-> content_strategy.content_themes[1]],
                    timeline |-> "Next month", category |-> "Content Planning"]>>
            ELSE <<>>)

\* the report for one outcome of each of the two aggregators whose result
\* depends on how a sort leaves its ties
ReportOf(vs, keyword, t_now, competitor_data, keyword_data) ==
    LET title_data    == analyze_titles(vs)
        temporal_data == analyze_temporal_patterns(vs, t_now)
        actionable_insights ==
            _generate_actionable_insights(title_data, competitor_data, temporal_data,
                                          keyword_data)
        content_strategy ==
            _generate_content_strategy(title_data, keyword_data, competitor_data,
                                       temporal_data)
    IN  [executive_summary |->
             _generate_executive_summary(vs, keyword, competitor_data, t_now),
         actionable_insights |-> actionable_insights,
         content_strategy |-> content_strategy,
         competitive_intelligence |->
             _generate_competitive_intelligence(competitor_data, keyword_data),
         performance_benchmarks |-> _generate_performance_benchmarks(vs),
         next_steps |-> _generate_next_steps(actionable_insights, content_strategy),
         report_metadata |->
             [keyword |-> keyword,
              videos_analyzed |-> Len(vs),
              generated_at |-> t_now,
              analysis_depth |-> "comprehensive"]]

Reports(vs, keyword, t_now) ==
    {ReportOf(vs, keyword, t_now, competitor_data, keyword_data) :
        competitor_data \in analyze_competitors(vs),
        keyword_data \in analyze_keywords(vs, keyword)}

\* the report without its first two lines: the five aggregators return {}
\* for no record and _generate_executive_summary then asks the empty frame
\* for its view_count column
ReportUnguarded(vs, keyword, t_now) ==
    IF vs = <<>> THEN {Raised("KeyError")} ELSE Reports(vs, keyword, t_now)

\* every value generate_executive_report can return
generate_executive_report(vs, keyword, t_now) ==
    IF vs = <<>> THEN {EmptyResult} ELSE Reports(vs, keyword, t_now)

---------------------------------------------------------------------------
(* The record list.  search_videos builds one dict per item of the         *)
(* platform's answer; the aggregators read title, channel, published_at,   *)
(* view_count and like_count of it.                                        *)

Video(t, c, p, v, l) ==
    [title |-> t, channel |-> c, published_at |-> p, view_count |-> v, like_count |-> l]

MaxViews == 2
MaxLikes == 2
MaxResponse == 2

ClockNow == Stamp(2024, 6, 15, 12)
StampRecent == Stamp(2024, 6, 12, 9)
StampMonth == Stamp(2024, 5, 31, 18)
StampOld == Stamp(2023, 12, 31, 23)
StampMonday == Stamp(2024, 6, 10, 9)

TitlePlain == <<"I", "n", "t", "r", "o">>
ChannelA == <<"A", "l", "p", "h", "a">>
ChannelB == <<"b", "e", "t", "a">>

\* records that differ in their view count only
RankedVideos == {Video(TitlePlain, ChannelA, StampOld, v, 0) : v \in 0..MaxViews}

\* records that differ in their view and like counts
CountedVideos ==
    {Video(TitlePlain, ChannelA, StampOld, v, l) : v \in 0..MaxViews, l \in 0..MaxLikes}

ChannelC == <<"G", "a", "m", "m", "a">>

ViewChoices == {0, 1, 2}
LikeChoices == {0, 1}

\* records of up to three channels
ChannelVideos ==
    {Video(TitlePlain, c, StampOld, v, l) :
        c \in {ChannelA, ChannelB, ChannelC}, v \in ViewChoices, l \in LikeChoices}

\* The k-th record of a market of many channels: a channel of its own with
\* a view count no other record has (the first may have no views at all).
ManyChannels == <<"a", "b", "c", "d", "e", "f", "g", "h", "i", "j", "k", "l", "m", "n", "o", "p", "q", "r", "s", "t", "u", "v", "w", "x", "y", "z">>

MarketVideos(k) ==
    {Video(TitlePlain, <<ManyChannels[k]>>, StampOld, v, 1) :
        v \in {1000 + 2 * k}
               \cup (IF k % 2 = 1 THEN {1001 + 2 * k} ELSE {})
               \cup (IF k = 1 THEN {0} ELSE {})}

\* records published on a Monday, a Wednesday, a Friday or a Sunday
DatedVideos ==
    {Video(TitlePlain, ChannelA, p, v, 1) :
        p \in {StampMonday, StampRecent, StampMonth, StampOld}, v \in ViewChoices}

TitleTutorial == <<"P", "y", "t", "h", "o", "n", " ", "T", "u", "t", "o", "r", "i", "a", "l", " ", "f", "o", "r", " ", "B", "e", "g", "i", "n", "n", "e", "r", "s", " ", "2", "0", "2", "4">>
TitleLearn == <<"L", "e", "a", "r", "n", " ", "P", "y", "t", "h", "o", "n">>
TitleTips == <<"W", "h", "y", " ", "P", "y", "t", "h", "o", "n", "?", " ", "1", "0", " ", "T", "i", "p", "s", "!">>
TitleCourse == <<"F", "u", "l", "l", " ", "C", "o", "u", "r", "s", "e", " ", "[", "P", "y", "t", "h", "o", "n", "3", "]", " ", "(", "f", "r", "e", "e", ")">>

KeywordPythonTutorial == <<"p", "y", "t", "h", "o", "n", " ", "t", "u", "t", "o", "r", "i", "a", "l">>
KeywordPython == <<"P", "y", "t", "h", "o", "n">>
KeywordTutorials == <<"t", "u", "t", "o", "r", "i", "a", "l", "s">>

\* records that differ in their title, the later ones published later
TitledVideos ==
    {Video(TitleTutorial, ChannelA, StampOld, 2, 1),
     Video(TitleLearn, ChannelA, StampMonth, 1, 1),
     Video(TitleTips, ChannelB, StampMonday, 1, 0),
     Video(TitleCourse, ChannelB, StampRecent, 0, 1),
     Video(TitlePlain, ChannelB, StampRecent, 0, 0)}

\* three records: two channels, three dates, one record without views
SampleVideos ==
    {Video(TitleTutorial, ChannelA, StampOld, 2, 1),
     Video(TitleTips, ChannelB, StampMonday, 1, 0),
     Video(TitleCourse, ChannelB, StampRecent, 0, 1)}

\* four records that tie on views or on likes yet differ in another field
TiedVideos ==
    {Video(TitlePlain, ChannelA, StampRecent, 1, 0),
     Video(TitlePlain, ChannelA, StampRecent, 1, 1),
     Video(TitlePlain, ChannelA, StampOld, 1, 1),
     Video(TitlePlain, ChannelA, StampOld, 2, 0)}

---------------------------------------------------------------------------
(* The command-line run: main, interactive_mode and run_analysis.          *)

\* The options of the command line and the environment of the process.
\* selected lists the aggregators asked for, in the order they will run.
Options(api_key, interactive, keyword_given, max_results, min_views, min_likes, output, selected, upstream) ==
    [api_key |-> api_key, interactive |-> interactive,
     keyword_given |-> keyword_given, max_results |-> max_results,
     min_views |-> min_views, min_likes |-> min_likes, output |-> output,
     selected |-> selected, upstream |-> upstream]

\* A run at position pc: requested is the maxResults asked of the platform
\* (0 before any search), invoked the aggregator calls made with the
\* records handed to each, written the record lists saved to the output
\* file, messages the errors printed.
RunAt(pc, options, todo, requested, invoked, written, messages) ==
    [pc |-> pc, options |-> options, todo |-> todo, requested |-> requested,
     invoked |-> invoked, written |-> written, messages |-> messages]

\* no command-line run: the aggregators are called directly
NoRun ==
    RunAt("none", Options(TRUE, FALSE, TRUE, 0, 0, 0, FALSE, <<>>, "ok"),
          <<>>, 0, <<>>, <<>>, <<>>)

---------------------------------------------------------------------------
(* The state machine.                                                      *)

InitWith(keywords) ==
    /\ videos = <<>>
    /\ search_keyword \in keywords
    /\ now = ClockNow
    /\ op = "none"
    /\ args = <<>>
    /\ result = <<>>
    /\ error = "none"
    /\ run = NoRun

\* search_videos, lines 75-89: one more record of the platform's answer
FetchVideo(pool, limit) ==
    /\ op = "none"
    /\ Len(videos) < limit
    /\ \E v \in pool : videos' = Append(videos, v)
    /\ UNCHANGED <<search_keyword, now, op, args, result, error, run>>

\* a call that sorts the list it was given by views before it returns, as
\* list.sort does in place
ReturnsSortingRecords(name, value) ==
    /\ op' = name
    /\ result' = value
    /\ error' = "none"
    /\ videos' = Pick(videos, NLargest(Len(videos), Column(videos, "view_count")))
    /\ UNCHANGED <<search_keyword, now, args, run>>

\* a call that returns its value: every aggregator reads the list into a
\* frame of its own (pd.DataFrame(videos)) and leaves the list as it was
Returns(name, value) ==
    /\ op' = name
    /\ result' = value
    /\ error' = "none"
    /\ UNCHANGED <<videos, search_keyword, now, args, run>>

\* a call that ends: with its value, or with the exception it raised
Completes(name, outcome) ==
    /\ op' = name
    /\ result' = (IF IsRaised(outcome) THEN EmptyResult ELSE outcome)
    /\ error' = (IF IsRaised(outcome) THEN outcome.raised ELSE "none")
    /\ UNCHANGED <<videos, search_keyword, now, args, run>>

AnalyzeTitles == Completes("analyze_titles", analyze_titles(videos))

GenerateExecutiveReport ==
    \E outcome \in generate_executive_report(videos, search_keyword, now) :
        Completes("generate_executive_report", outcome)

---------------------------------------------------------------------------
(* The steps of a command-line run.                                        *)

\* the aggregators in the order main runs the ones its flags ask for
MainOrder ==
    <<"analyze_growth_patterns", "analyze_titles", "analyze_competitors",
      "analyze_temporal_patterns", "analyze_keywords", "generate_executive_report">>

\* every outcome the named aggregator can have
AggregatorOutcomes(name, vs, keyword, t_now) ==
    IF name = "analyze_growth_patterns" THEN {analyze_growth_patterns(vs, t_now)}
    ELSE IF name = "analyze_titles" THEN {analyze_titles(vs)}
    ELSE IF name = "analyze_competitors" THEN analyze_competitors(vs)
    ELSE IF name = "analyze_temporal_patterns" THEN {analyze_temporal_patterns(vs, t_now)}
    ELSE IF name = "analyze_keywords" THEN analyze_keywords(vs, keyword)
    ELSE generate_executive_report(vs, keyword, t_now)

Says(r, message) == [r EXCEPT !.messages = Append(@, message), !.pc = "done"]

\* main looking at the mode before it looks at the credential
MainStartModeFirst ==
    /\ run.pc = "main"
    /\ run' = IF run.options.interactive
              THEN [run EXCEPT !.pc = "interactive"]
              ELSE IF ~run.options.api_key
              THEN Says(run, "Error: YouTube API key not found.")
              ELSE IF ~run.options.keyword_given
              THEN Says(run, "Error: Keyword is required for non-interactive mode.")
              ELSE [run EXCEPT !.pc = "search"]
    /\ UNCHANGED <<videos, search_keyword, now, op, args, result, error>>

\* main, lines 1365-1381: the credential, the mode, the keyword
MainStart ==
    /\ run.pc = "main"
    /\ run' = IF ~run.options.api_key
              THEN Says(run, "Error: YouTube API key not found.")
              ELSE IF run.options.interactive
              THEN [run EXCEPT !.pc = "interactive"]
              ELSE IF ~run.options.keyword_given
              THEN Says(run, "Error: Keyword is required for non-interactive mode.")
              ELSE [run EXCEPT !.pc = "search"]
    /\ UNCHANGED <<videos, search_keyword, now, op, args, result, error>>

\* the number of videos a user may type at the prompt
TypedResults == {1, 60}

\* the lists get_analysis_preferences can return: the recommendation for a
\* researcher, and the default of an empty custom selection
InteractiveSelections ==
    {<<"analyze_growth_patterns", "analyze_temporal_patterns", "generate_executive_report">>,
     <<"analyze_growth_patterns">>}

\* interactive_mode, lines 1034-1095: the prompts; then run_analysis
InteractiveMode ==
    /\ run.pc = "interactive"
    /\ \E typed \in TypedResults, chosen \in InteractiveSelections :
           run' = [run EXCEPT !.pc = "search",
                              !.options.max_results = Min(typed, 50),
                              !.options.keyword_given = TRUE,
                              !.options.selected = chosen]
    /\ UNCHANGED <<videos, search_keyword, now, op, args, result, error>>

\* the record lists the platform can answer a request for n results with
Responses(n) ==
    UNION {[1..k -> SampleVideos] : k \in 1..Min(n, MaxResponse)}

\* the request passing max_results on as it is
maxResultsAsGiven(max_results) == max_results

\* 'maxResults': min(max_results, 50), line 51
maxResults(max_results) == Min(max_results, 50)

\* search_videos, lines 46-98: the request, then the answer, no result, or
\* an exception caught and turned into an empty list
SearchVideos ==
    /\ run.pc = "search"
    /\ LET requested == maxResults(run.options.max_results)
           searching == [run EXCEPT !.pc = "searched", !.requested = requested]
       IN  IF run.options.upstream = "ok"
           THEN /\ videos' \in Responses(requested)
                /\ run' = searching
           ELSE /\ videos' = <<>>
                /\ run' = IF run.options.upstream = "HttpError"
                          THEN [searching EXCEPT !.messages = Append(@, "YouTube API error")]
                          ELSE IF run.options.upstream = "Exception"
                          THEN [searching EXCEPT !.messages = Append(@, "Unexpected error")]
                          ELSE searching
    /\ UNCHANGED <<search_keyword, now, op, args, result, error>>

\* the filter of main with the test on likes left out
FilteredOnViews(vs, options) ==
    IF options.min_views # 0
    THEN Pick(vs, SelectIdx(vs, LAMBDA v : v.view_count >= options.min_views))
    ELSE vs

\* min_views and min_likes as main applies them: an option of 0 or none
\* filters nothing
Filtered(vs, options) ==
    LET by_views == IF options.min_views # 0
                    THEN Pick(vs, SelectIdx(vs, LAMBDA v : v.view_count >= options.min_views))
                    ELSE vs
    IN  IF options.min_likes # 0
        THEN Pick(by_views,
                  SelectIdx(by_views, LAMBDA v : v.like_count >= options.min_likes))
        ELSE by_views

\* list.sort(key=view_count, reverse=True): stable, equal keys keep their order
SortedByViews(vs) == Pick(vs, NLargest(Len(vs), Column(vs, "view_count")))

\* the caller going on without looking whether the search found anything
AfterSearchUnchecked ==
    /\ run.pc = "searched"
    /\ IF run.options.interactive
       THEN /\ run' = [run EXCEPT !.pc = "analyses", !.todo = run.options.selected]
            /\ UNCHANGED videos
       ELSE LET kept == Filtered(videos, run.options)
            IN  IF kept = <<>> /\ videos # <<>>
                THEN /\ run' = Says(run, "No videos meet the view/like filters.")
                     /\ videos' = kept
                ELSE /\ run' = [run EXCEPT !.pc = "analyses",
                                           !.todo = run.options.selected]
                     /\ videos' = SortedByViews(kept)
    /\ UNCHANGED <<search_keyword, now, op, args, result, error>>

\* the caller after the search: run_analysis, lines 1205-1207, and main,
\* lines 1400-1413
AfterSearch ==
    /\ run.pc = "searched"
    /\ IF videos = <<>>
       THEN /\ run' = Says(run, "No videos found")
            /\ UNCHANGED videos
       ELSE IF run.options.interactive
       THEN /\ run' = [run EXCEPT !.pc = "analyses", !.todo = run.options.selected]
            /\ UNCHANGED videos
       ELSE LET kept == Filtered(videos, run.options)
            IN  IF kept = <<>>
                THEN /\ run' = Says(run, "No videos meet the view/like filters.")
                     /\ videos' = kept
                ELSE /\ run' = [run EXCEPT !.pc = "analyses",
                                           !.todo = run.options.selected]
                     /\ videos' = SortedByViews(kept)
    /\ UNCHANGED <<search_keyword, now, op, args, result, error>>

\* the next aggregator asked for: run_analysis, lines 1215-1227, and main,
\* lines 1439-1638
RunNextAnalysis ==
    /\ run.pc = "analyses"
    /\ run.todo # <<>>
    /\ \E outcome \in AggregatorOutcomes(Head(run.todo), videos, search_keyword, now) :
           /\ op' = Head(run.todo)
           /\ result' = (IF IsRaised(outcome) THEN EmptyResult ELSE outcome)
           /\ error' = (IF IsRaised(outcome) THEN outcome.raised ELSE "none")
           /\ run' = [run EXCEPT
                         !.pc = IF IsRaised(outcome) THEN "done" ELSE @,
                         !.todo = Tail(@),
                         !.invoked = Append(@, [name |-> Head(run.todo),
                                                videos |-> videos])]
    /\ UNCHANGED <<videos, search_keyword, now, args>>

\* the end of the run: main, lines 1727-1730, saves the records when
\* --output is given; run_analysis saves nothing
FinishRun ==
    /\ run.pc = "analyses"
    /\ run.todo = <<>>
    /\ run' = [run EXCEPT
                  !.pc = "done",
                  !.written = IF ~run.options.interactive /\ run.options.output
                              THEN Append(@, videos) ELSE @]
    /\ UNCHANGED <<videos, search_keyword, now, op, args, result, error>>

GenerateNextSteps ==
    /\ args # <<>>
    /\ Returns("_generate_next_steps",
               _generate_next_steps(args.actionable_insights, args.content_strategy))

AnalyzeGrowth == Returns("analyze_growth_patterns", analyze_growth_patterns(videos, now))

AnalyzeCompetitors ==
    \E value \in analyze_competitors(videos) : Returns("analyze_competitors", value)

AnalyzeTemporal ==
    Returns("analyze_temporal_patterns", analyze_temporal_patterns(videos, now))

CalculateOpportunityScore ==
    /\ args # <<>>
    /\ Returns("_calculate_opportunity_score",
               _calculate_opportunity_score(args.competitor_data, args.avg_views,
                                            args.avg_engagement))

AnalyzeKeywords ==
    \E value \in analyze_keywords(videos, search_keyword) :
        Returns("analyze_keywords", value)

NextRanking == FetchVideo(RankedVideos, MaxRankedVideos) \/ AnalyzeGrowth
SpecRanking == InitWith({<<>>}) /\ [][NextRanking]_vars

NextGrowth == FetchVideo(CountedVideos, MaxVideos) \/ AnalyzeGrowth
SpecGrowth == InitWith({<<>>}) /\ [][NextGrowth]_vars

---------------------------------------------------------------------------
(* Claims about analyze_growth_patterns.                                   *)

Count(s, Test(_)) == Cardinality({i \in DOMAIN s : Test(s[i])})

GrowthReturned == op = "analyze_growth_patterns" /\ videos # <<>>

TopPerformerRow(r) ==
    [title |-> r.title, view_count |-> r.view_count, like_count |-> r.like_count,
     days_ago |-> DaysAgo(now, r.published_at)]

\* C1: for a non-empty record list, top_performers is in non-increasing
\* view_count order, has at most 5 entries, every entry is an input record
\* (no more often than the input holds it), and no input record that was
\* left out has a strictly larger view_count than an entry.
C1_TopPerformers ==
    GrowthReturned =>
        LET top  == result.top_performers
            rows == [i \in DOMAIN videos |-> TopPerformerRow(videos[i])]
        IN  /\ Len(top) <= 5
            /\ \A i, j \in DOMAIN top : i < j => top[i].view_count >= top[j].view_count
            /\ \A k \in DOMAIN top :
                   Count(top, LAMBDA e : e = top[k]) <= Count(rows, LAMBDA r : r = top[k])
            /\ \A k \in DOMAIN top : \A i \in DOMAIN rows :
                   rows[i].view_count > top[k].view_count =>
                       Count(top, LAMBDA e : e = rows[i]) = Count(rows, LAMBDA r : r = rows[i])

\* more than 5 records, not in view order, one with fewer views left out
C1_Witness ==
    /\ GrowthReturned
    /\ Len(videos) > 5
    /\ Len(result.top_performers) = 5
    /\ videos[1].view_count < videos[Len(videos)].view_count
    /\ \E i \in DOMAIN videos : videos[i].view_count < result.top_performers[5].view_count

\* the mean of likes/views, in percent, over the records with view_count > 0
MeanEngagementOfViewed(vs) ==
    LET viewed == Pick(vs, SelectIdx(vs, LAMBDA r : r.view_count > 0))
    IN  FMul(SeriesMean(LikeRatio(viewed)), Num(100))

\* C10: avg_engagement_rate is the mean of likes/views over the records
\* with view_count > 0; a record with view_count = 0 does not change it.
C10_EngagementExcludesZeroViews ==
    (GrowthReturned /\ \E i \in DOMAIN videos : videos[i].view_count > 0) =>
        result.avg_engagement_rate = MeanEngagementOfViewed(videos)

---------------------------------------------------------------------------
(* Specifications for analyze_competitors.                                 *)

NextCompetitors == FetchVideo(ChannelVideos, MaxVideos) \/ AnalyzeCompetitors
SpecCompetitors == InitWith({<<>>}) /\ [][NextCompetitors]_vars

FetchMarketVideo ==
    /\ Len(videos) < MaxChannels
    /\ FetchVideo(MarketVideos(Len(videos) + 1), MaxChannels)

NextMarket == FetchMarketVideo \/ AnalyzeCompetitors
SpecMarket == InitWith({<<>>}) /\ [][NextMarket]_vars

---------------------------------------------------------------------------
(* Claims about analyze_competitors.                                       *)

CompetitorsReturned == op = "analyze_competitors" /\ videos # <<>>

AllChannelsReported == result.total_channels = Len(result.top_competitors)

TotalViews(vs) == SumSeq(Column(vs, "view_count"))

ReportedShares == Column(result.top_competitors, "market_share")

\* |x - 100| <= channels * 0.005: what rounding each share to two decimals
\* can move the sum by
SumsTo100(shares) ==
    LET total == FSumSeq(shares)
        diff  == total.n * 200 - 20000 * total.d
    IN  /\ \A k \in DOMAIN shares : IsFinite(shares[k])
        /\ diff <= Len(shares) * total.d
        /\ -diff <= Len(shares) * total.d

\* C2 as stated: for any non-empty record list the market shares of all
\* channels sum to 100, within the tolerance of their rounding.
C2_SharesSumTo100 ==
    (CompetitorsReturned /\ AllChannelsReported) => SumsTo100(ReportedShares)

\* C2 as amended: for any non-empty record list with a positive total view
\* count the market shares of all channels sum to 100, within 0.005 per
\* channel (each share is rounded to two decimals).
C2_SharesSumTo100_Viewed ==
    (CompetitorsReturned /\ AllChannelsReported /\ TotalViews(videos) > 0) =>
        SumsTo100(ReportedShares)

\* three channels whose rounded shares do not add up to exactly 100
C2_Witness ==
    /\ CompetitorsReturned /\ AllChannelsReported /\ TotalViews(videos) > 0
    /\ result.total_channels = 3
    /\ FSumSeq(ReportedShares) # Num(100)

\* the combined market share of the 5 channels ranked first
Top5Share == SeriesSum(Column(HeadN(result.top_competitors, 5), "market_share"))

\* C3: concentration_level is 'High' exactly when the combined share of the
\* top 5 channels is above 60, 'Medium' exactly when it is above 40 and at
\* most 60, and 'Low' otherwise.
C3_ConcentrationLevel ==
    CompetitorsReturned =>
        LET level == result.market_concentration.concentration_level
        IN  /\ level \in {"High", "Medium", "Low"}
            /\ level = "High" <=> FGt(Top5Share, Num(60))
            /\ level = "Medium" <=> (FGt(Top5Share, Num(40)) /\ ~FGt(Top5Share, Num(60)))

\* a market of at least 9 channels whose top 5 hold between 40 and 60 percent
C3_Witness ==
    /\ CompetitorsReturned
    /\ result.total_channels >= 9
    /\ result.market_concentration.concentration_level = "Medium"
    /\ FGt(Top5Share, Num(40))

SingleChannel(vs) == \A i, j \in DOMAIN vs : vs[i].channel = vs[j].channel

SingleChannelReport ==
    /\ result.total_channels = 1
    /\ Len(result.top_competitors) = 1
    /\ result.top_competitors[1].market_share = Num(100)
    /\ result.market_concentration.concentration_level = "High"

\* C6 as stated: for any non-empty record list whose records all have the
\* same channel, total_channels = 1, that channel's market share is 100 and
\* the concentration level is 'High'.
C6_SingleChannel ==
    (CompetitorsReturned /\ SingleChannel(videos)) => SingleChannelReport

\* C6 as amended: the same, for record lists with a positive total view count.
C6_SingleChannel_Viewed ==
    (CompetitorsReturned /\ SingleChannel(videos) /\ TotalViews(videos) > 0) =>
        SingleChannelReport

\* several records of one channel, one of them without views
C6_Witness ==
    /\ CompetitorsReturned /\ SingleChannel(videos) /\ TotalViews(videos) > 0
    /\ Len(videos) >= 2
    /\ \E i \in DOMAIN videos : videos[i].view_count = 0
    /\ SingleChannelReport

---------------------------------------------------------------------------
(* analyze_temporal_patterns: specification and claims.                    *)

NextTemporal == FetchVideo(DatedVideos, MaxVideos) \/ AnalyzeTemporal
SpecTemporal == InitWith({<<>>}) /\ [][NextTemporal]_vars

TemporalReturned == op = "analyze_temporal_patterns" /\ videos # <<>>

ReportedDays == Column(result.day_performance, "day_of_week")

\* C4: for every non-empty record list, in whatever order, day_performance
\* lists the days of the week that occur, each once, in the calendar order
\* Monday, Tuesday, ..., Sunday.
C4_DaysInCalendarOrder ==
    TemporalReturned =>
        /\ \A i, j \in DOMAIN ReportedDays :
               i < j => IndexIn(day_order, ReportedDays[i]) < IndexIn(day_order, ReportedDays[j])
        /\ Range(ReportedDays) = {DayName(videos[i].published_at) : i \in DOMAIN videos}

\* three days given latest first, whose calendar order is neither their
\* alphabetical order nor their order by mean views
C4_Witness ==
    /\ TemporalReturned
    /\ Len(ReportedDays) = 3
    /\ ReportedDays[1] = "Monday" /\ ReportedDays[2] = "Friday"
    /\ DayName(videos[1].published_at) = ReportedDays[3]
    /\ FGt(result.day_performance[2].avg_views, result.day_performance[1].avg_views)
    /\ FGt(result.day_performance[2].avg_views, result.day_performance[3].avg_views)

---------------------------------------------------------------------------
(* _calculate_opportunity_score on inputs of its own.                      *)

MaxCompetitors == 17

CompetitorInputs ==
    {<<>>}
    \cup {[market_concentration |-> [concentration_level |-> level],
           top_competitors |-> [k \in 1..n |-> [video_count |-> 1]]] :
              level \in {"High", "Medium", "Low", "Unknown"}, n \in 0..MaxCompetitors}

EngagementInputs ==
    {NaN, Inf, Num(0), Num(2), Frac(201, 100), Num(5), Frac(501, 100), Num(100)}

InitScore ==
    /\ videos = <<>>
    /\ search_keyword = <<>>
    /\ now = ClockNow
    /\ op = "none"
    /\ args \in [competitor_data : CompetitorInputs,
                 avg_views : {Num(0), Num(1000)},
                 avg_engagement : EngagementInputs]
    /\ result = <<>>
    /\ error = "none"
    /\ run = NoRun

NextScore == CalculateOpportunityScore
SpecScore == InitScore /\ [][NextScore]_vars

\* C5: whatever the concentration level, the average engagement (NaN and
\* inf included) and the number of competitors, the opportunity score is an
\* integer from 1 to 10.
C5_ScoreInRange ==
    op = "_calculate_opportunity_score" => result \in 1..10

\* more than 15 competitors in a highly concentrated market, engagement NaN
C5_Witness ==
    /\ op = "_calculate_opportunity_score"
    /\ IsNaN(args.avg_engagement)
    /\ Len(Get(args.competitor_data, "top_competitors", <<>>)) > 15
    /\ Get(Get(args.competitor_data, "market_concentration", <<>>),
           "concentration_level", "Medium") = "High"
    /\ result = 2

---------------------------------------------------------------------------
(* analyze_keywords: specification and claims.                             *)

NextKeywords == FetchVideo(TitledVideos, MaxVideos) \/ AnalyzeKeywords
SpecKeywords ==
    InitWith({KeywordPythonTutorial, KeywordPython, KeywordTutorials})
        /\ [][NextKeywords]_vars

KeywordsReturned == op = "analyze_keywords" /\ videos # <<>>

\* phrase is a run of 2 to 4 tokens of title that includes a token holding
\* a word of the keyword
StraddlesKeyword(phrase, title, keyword) ==
    LET words == Split(Lower(title))
        parts == Split(Lower(keyword))
    IN  \E a, b \in DOMAIN words :
            /\ b - a + 1 \in 2..4
            /\ phrase = Join(SubSeq(words, a, b))
            /\ \E k \in a..b : \E p \in DOMAIN parts : Contains(words[k], parts[p])

\* C7: for every title of at least two tokens that contains the search
\* keyword, a keyword of several words included, long_tail_keywords holds a
\* phrase of 2 to 4 tokens of that title that straddles the keyword.
C7_LongTailForEveryTitle ==
    KeywordsReturned =>
        \A i \in DOMAIN videos :
            (/\ Contains(Lower(videos[i].title), Lower(search_keyword))
             /\ Len(Split(videos[i].title)) >= 2) =>
                \E k \in DOMAIN result.long_tail_keywords :
                    StraddlesKeyword(result.long_tail_keywords[k].phrase,
                                     videos[i].title, search_keyword)

---------------------------------------------------------------------------
(* The six aggregators together: specification and claims.                 *)

Next ==
    \/ FetchVideo(SampleVideos, MaxVideos)
    \/ AnalyzeGrowth
    \/ AnalyzeTitles
    \/ AnalyzeCompetitors
    \/ AnalyzeTemporal
    \/ AnalyzeKeywords
    \/ GenerateExecutiveReport

Spec == InitWith({KeywordPythonTutorial, KeywordPython}) /\ [][Next]_vars

Aggregators ==
    {"analyze_growth_patterns", "analyze_titles", "analyze_competitors",
     "analyze_temporal_patterns", "analyze_keywords", "generate_executive_report"}

\* C8: each of the six aggregators, called with an empty record list,
\* returns an empty result and raises no error.
C8_EmptyInEmptyOut ==
    (op \in Aggregators /\ videos = <<>>) => (result = EmptyResult /\ error = "none")

\* C8, its case: the report was asked for with no record and came back empty
C8_Witness ==
    op = "generate_executive_report" /\ videos = <<>> /\ result = EmptyResult

\* the engagement rates and market shares a result reports
ReportedRates ==
    IF result = EmptyResult THEN {}
    ELSE IF op = "analyze_competitors"
    THEN Range(Column(result.top_competitors, "engagement_rate"))
         \cup Range(Column(result.top_competitors, "market_share"))
         \cup {result.market_concentration.top_5_share,
               result.market_concentration.top_10_share}
    ELSE IF op = "analyze_temporal_patterns"
    THEN Range(Column(result.hour_performance, "engagement_rate"))
         \cup Range(Column(result.day_performance, "engagement_rate"))
         \cup Range(Column(result.monthly_trends, "engagement_rate"))
    ELSE IF op = "analyze_keywords"
    THEN Range(Column(result.keyword_performance, "engagement_rate"))
    ELSE IF op = "generate_executive_report"
    THEN {result.performance_benchmarks.engagement_benchmarks[b] :
              b \in {"excellent", "good", "average", "poor"}}
    ELSE {}

\* C9: whatever denominators are zero, no rate or share that the
\* competitor, temporal, keyword-performance and benchmark results report
\* is infinite or undefined, and no division fault is raised.
C9_RatesAreGuarded ==
    error = "none" /\ \A rate \in ReportedRates : IsFinite(rate)

---------------------------------------------------------------------------
(* analyze_titles: specification and claims.                               *)

NextTitles == FetchVideo(RankedVideos, MaxRankedVideos) \/ AnalyzeTitles
SpecTitles == InitWith({<<>>}) /\ [][NextTitles]_vars

TitlesReturned == op = "analyze_titles" /\ videos # <<>>

\* the least integer not below a / b, for a >= 0 and b > 0
CeilDiv(a, b) == (a + b - 1) \div b

\* C11: for a non-empty list of N records, analyze_titles analyses exactly
\* max(1, ceiling(N/5)) records, those with the highest view counts.
C11_TopFifthRoundedUp ==
    TitlesReturned =>
        result.total_titles_analyzed = Max(1, CeilDiv(Len(videos), 5))

---------------------------------------------------------------------------
(* analyze_growth_patterns, ties: specification and claims.                *)

NextTies == FetchVideo(TiedVideos, MaxRankedVideos) \/ AnalyzeGrowth
SpecTies == InitWith({<<>>}) /\ [][NextTies]_vars

\* the place of row i among rows ranked by key, ties by input position
PlaceByKey(rows, key, i) ==
    Cardinality({j \in DOMAIN rows :
        rows[j][key] > rows[i][key] \/ (rows[j][key] = rows[i][key] /\ j < i)}) + 1

\* the first n rows by key, equal keys in input order, cut to the fields
StableTop(rows, n, key, fields) ==
    [k \in 1..Min(n, Len(rows)) |->
        LET i == CHOOSE i \in DOMAIN rows : PlaceByKey(rows, key, i) = k
        IN  [f \in fields |-> rows[i][f]]]

RecentRows(rows) == Pick(rows, SelectIdx(rows, LAMBDA r : r.days_ago <= 7))

\* C12: in top_performers, recent_trends and best_engagement, records with
\* equal ranking key keep their input order, and on a tie at the cut-off
\* the record that comes earlier in the input is the one kept.
C12_TiesKeepInputOrder ==
    GrowthReturned =>
        LET rows == [i \in DOMAIN videos |-> TopPerformerRow(videos[i])]
        IN  /\ result.top_performers
                 = StableTop(rows, 5, "view_count",
                             {"title", "view_count", "like_count", "days_ago"})
            /\ result.recent_trends
                 = StableTop(RecentRows(rows), 3, "view_count",
                             {"title", "view_count", "days_ago"})
            /\ result.best_engagement
                 = StableTop(rows, 3, "like_count",
                             {"title", "like_count", "view_count", "days_ago"})

\* C12, its case: six records tie on views, the sixth differs from the
\* fifth and is the one left out of top_performers
C12_Witness ==
    /\ GrowthReturned
    /\ Len(videos) = 6
    /\ \A i \in DOMAIN videos : videos[i].view_count = 1
    /\ videos[5].like_count # videos[6].like_count
    /\ videos[1].like_count # videos[2].like_count
    /\ result.top_performers[5].like_count = videos[5].like_count
    /\ result.top_performers[1].like_count = videos[1].like_count

\* C13: no aggregator call changes the record list it receives: length,
\* order and every field of every record are the same after the call as
\* before, whatever calls came before it.
C13_RecordsUnchanged == [][op' \in Aggregators => videos' = videos]_vars

\* C13, its case: an aggregator has returned for a list that is not in
\* view order
C13_Witness ==
    /\ op = "analyze_growth_patterns"
    /\ Len(videos) >= 2
    /\ videos[1].view_count < videos[2].view_count
    /\ result # EmptyResult

---------------------------------------------------------------------------
(* The command-line run: specification and claims.                         *)

\* the flags of main that ask for aggregators, in the order main runs them
Selections ==
    {<<>>,
     <<"analyze_growth_patterns", "analyze_competitors">>,
     <<"analyze_titles", "analyze_temporal_patterns", "analyze_keywords",
       "generate_executive_report">>}

MaxResultsChoices == {1, 50, 60}
Upstreams == {"ok", "no_results", "HttpError", "Exception"}

InitMain ==
    /\ videos = <<>>
    /\ search_keyword = KeywordPython
    /\ now = ClockNow
    /\ op = "none"
    /\ args = <<>>
    /\ result = <<>>
    /\ error = "none"
    /\ \E api_key, interactive, keyword_given, output \in BOOLEAN,
          max_results \in MaxResultsChoices, min_views \in {0, 2}, min_likes \in {0, 1},
          selected \in Selections, upstream \in Upstreams :
           run = RunAt("main",
                       Options(api_key, interactive, keyword_given, max_results,
                               min_views, min_likes, output, selected, upstream),
                       <<>>, 0, <<>>, <<>>, <<>>)

NextMain ==
    \/ MainStart
    \/ InteractiveMode
    \/ SearchVideos
    \/ AfterSearch
    \/ RunNextAnalysis
    \/ FinishRun

SpecMain == InitMain /\ [][NextMain]_vars

\* C15: when the search returns no results or the upstream call fails,
\* search_videos returns an empty list instead of raising, and the caller
\* (main and run_analysis) then invokes no aggregator and writes no file.
C15_EmptySearchEndsRun ==
    (run.requested > 0 /\ run.options.upstream # "ok") =>
        /\ videos = <<>>
        /\ error = "none"
        /\ run.invoked = <<>>
        /\ run.written = <<>>
        /\ run.pc \in {"searched", "done"}

\* C15, its case: the upstream call failed in a run that asked for
\* aggregators and an output file, and the run is over
C15_Witness ==
    /\ run.pc = "done"
    /\ run.requested > 0
    /\ run.options.upstream = "HttpError"
    /\ run.options.output
    /\ run.options.selected # <<>>
    /\ run.invoked = <<>>
    /\ run.written = <<>>

\* C16: when YOUTUBE_API_KEY is absent, main reports the configuration
\* error and ends without a search, without running any aggregator and
\* without writing an output file, in interactive mode as in the other.
C16_NoKeyNoWork ==
    ~run.options.api_key =>
        /\ run.pc \in {"main", "done"}
        /\ run.pc = "done" => run.messages = <<"Error: YouTube API key not found.">>
        /\ run.requested = 0
        /\ videos = <<>>
        /\ op = "none"
        /\ run.invoked = <<>>
        /\ run.written = <<>>

\* C16, its case: an interactive run without the credential is over, with
\* aggregators and an output file asked for
C16_Witness ==
    /\ ~run.options.api_key
    /\ run.options.interactive
    /\ run.options.output
    /\ run.options.selected # <<>>
    /\ run.pc = "done"
    /\ run.messages # <<>>

---------------------------------------------------------------------------
(* _generate_next_steps: specification and claims.                         *)

MaxInsights == 7

\* the k-th insight of a list, of the given priority
Insight(k, priority) ==
    [category |-> <<"c">> \o IntToStr(k), priority |-> priority,
     action |-> <<"a">> \o IntToStr(k)]

InsightLists ==
    UNION {{[k \in 1..n |-> Insight(k, priorities[k])] :
               priorities \in [1..n -> {"High", "Medium", "Low"}]} : n \in 0..MaxInsights}

ThemeLists ==
    {<<>>, <<[text |-> "Create content around", word |-> KeywordPython, count |-> 2]>>}

InitNextSteps ==
    /\ videos = <<>>
    /\ search_keyword = <<>>
    /\ now = ClockNow
    /\ op = "none"
    /\ args \in [actionable_insights : InsightLists,
                 content_strategy : [content_themes : ThemeLists]]
    /\ result = <<>>
    /\ error = "none"
    /\ run = NoRun

NextNextSteps == GenerateNextSteps
SpecNextSteps == InitNextSteps /\ [][NextNextSteps]_vars

NextStepsReturned == op = "_generate_next_steps"

\* the positions of the insights of a priority, in insight order
Prioritized(insights, priority) ==
    SelectIdx(insights, LAMBDA x : x.priority = priority)

\* C17: the next steps are the high-priority insights (the first 3 at most,
\* in insight order), then the medium-priority ones (the first 2 at most),
\* then one content-planning step exactly when content themes exist; no
\* high-priority step follows a medium-priority one and the step numbers
\* are 1, 2, ..., n.
C17_NextStepsOrder ==
    NextStepsReturned =>
        LET insights == args.actionable_insights
            high     == Prioritized(insights, "High")
            medium   == Prioritized(insights, "Medium")
            nh       == Min(3, Len(high))
            nm       == Min(2, Len(medium))
            themed   == args.content_strategy.content_themes # <<>>
        IN  /\ Len(result) = nh + nm + (IF themed THEN 1 ELSE 0)
            /\ \A k \in 1..nh :
                   /\ result[k].priority = "High"
                   /\ result[k].action = insights[high[k]].action
                   /\ result[k].category = insights[high[k]].category
            /\ \A k \in 1..nm :
                   /\ result[nh + k].priority = "Medium"
                   /\ result[nh + k].action = insights[medium[k]].action
                   /\ result[nh + k].category = insights[medium[k]].category
            /\ themed => result[Len(result)].category = "Content Planning"
            /\ \A i, j \in DOMAIN result :
                   (i < j /\ result[i].priority = "Medium") => result[j].priority # "High"
            /\ \A k \in DOMAIN result : result[k].step = k

\* C17, its case: more high and more medium insights than are kept, mixed,
\* and content themes
C17_Witness ==
    /\ NextStepsReturned
    /\ Len(Prioritized(args.actionable_insights, "High")) > 3
    /\ Len(Prioritized(args.actionable_insights, "Medium")) > 2
    /\ args.actionable_insights[1].priority = "Medium"
    /\ args.content_strategy.content_themes # <<>>
    /\ Len(result) = 6

---------------------------------------------------------------------------
(* analyze_keywords, the frequency table and the variations:               *)
(* specification and claims.                                               *)

\* "Pythons pythonic tutorials typhon pyth micropython pythonista tutor"
TitleVariants ==
    <<"P", "y", "t", "h", "o", "n", "s", " ", "p", "y", "t", "h", "o", "n",
      "i", "c", " ", "t", "u", "t", "o", "r", "i", "a", "l", "s", " ", "t",
      "y", "p", "h", "o", "n", " ", "p", "y", "t", "h", " ", "m", "i", "c",
      "r", "o", "p", "y", "t", "h", "o", "n", " ", "p", "y", "t", "h", "o",
      "n", "i", "s", "t", "a", " ", "t", "u", "t", "o", "r">>

\* "hypnot tutorialspoint thon tuto Python tutorial pythons"
TitleRelated ==
    <<"h", "y", "p", "n", "o", "t", " ", "t", "u", "t", "o", "r", "i", "a",
      "l", "s", "p", "o", "i", "n", "t", " ", "t", "h", "o", "n", " ", "t",
      "u", "t", "o", " ", "P", "y", "t", "h", "o", "n", " ", "t", "u", "t",
      "o", "r", "i", "a", "l", " ", "p", "y", "t", "h", "o", "n", "s">>

\* "The best code for you: learn js in 10 days, py3 and Go_lang with data tips"
TitleMixed ==
    <<"T", "h", "e", " ", "b", "e", "s", "t", " ", "c", "o", "d", "e", " ",
      "f", "o", "r", " ", "y", "o", "u", ":", " ", "l", "e", "a", "r", "n",
      " ", "j", "s", " ", "i", "n", " ", "1", "0", " ", "d", "a", "y", "s",
      ",", " ", "p", "y", "3", " ", "a", "n", "d", " ", "G", "o", "_", "l",
      "a", "n", "g", " ", "w", "i", "t", "h", " ", "d", "a", "t", "a", " ",
      "t", "i", "p", "s">>

\* "Learn code fast with vue js: vuejs course tips, tips 2024"
TitleVue ==
    <<"L", "e", "a", "r", "n", " ", "c", "o", "d", "e", " ", "f", "a", "s",
      "t", " ", "w", "i", "t", "h", " ", "v", "u", "e", " ", "j", "s", ":",
      " ", "v", "u", "e", "j", "s", " ", "c", "o", "u", "r", "s", "e", " ",
      "t", "i", "p", "s", ",", " ", "t", "i", "p", "s", " ", "2", "0", "2",
      "4">>

\* "vue js"
KeywordVueJs ==
    <<"v", "u", "e", " ", "j", "s">>

\* four records whose titles hold more than 20 distinct words, more than 10
\* of them close to "python" or "tutorial", with stop words, short words,
\* words with digits or underscores, and upper-case letters
WordyVideos ==
    {Video(TitleVariants, ChannelA, StampOld, 2, 1),
     Video(TitleRelated, ChannelA, StampMonth, 1, 1),
     Video(TitleMixed, ChannelB, StampMonday, 1, 0),
     Video(TitleVue, ChannelB, StampRecent, 0, 1)}

NextWords == FetchVideo(WordyVideos, MaxVideos) \/ AnalyzeKeywords
SpecWords ==
    InitWith({KeywordPythonTutorial, KeywordPython, KeywordVueJs})
        /\ [][NextWords]_vars

\* word and part share a substring relationship or more than 0.6 of the
\* characters either of them has
Related(word, part) ==
    \/ Contains(part, word)
    \/ Contains(word, part)
    \/ 10 * Cardinality(Range(word) \cap Range(part))
           > 6 * Cardinality(Range(word) \cup Range(part))

\* variations are the entries of table at the positions of qualifying, cut
\* to the 10 most frequent, in non-increasing frequency order
VariationsAmong(variations, table, qualifying) ==
    /\ Len(variations) = Min(10, Cardinality(qualifying))
    /\ \A k \in DOMAIN variations :
           \E i \in qualifying : /\ variations[k].word = table[i].word
                                 /\ variations[k].frequency = table[i].count
    /\ \A j, k \in DOMAIN variations :
           j < k => /\ variations[j].frequency >= variations[k].frequency
                    /\ variations[j].word # variations[k].word
    /\ \A i \in qualifying :
           (\A k \in DOMAIN variations : variations[k].word # table[i].word)
               => \A k \in DOMAIN variations : table[i].count <= variations[k].frequency

\* C18: the keyword_variations are exactly the words of the top-20 table
\* that have a substring relationship with, or a character-set similarity
\* above 0.6 to, at least one token of the search keyword, cut to at most 10
\* entries in non-increasing frequency order.
C18_VariationsOfAnyToken ==
    KeywordsReturned =>
        LET table == result.top_keywords
            parts == Split(Lower(search_keyword))
        IN  VariationsAmong(result.keyword_variations, table,
                {i \in DOMAIN table :
                    \E p \in DOMAIN parts : Related(table[i].word, parts[p])})

\* C18, amended: the keyword_variations are exactly the words of the top-20
\* table that are not themselves a token of the lower-cased search keyword
\* and that have a substring relationship with, or a character-set
\* similarity above 0.6 to, at least one of its tokens of more than 3
\* characters, cut to the 10 most frequent in non-increasing frequency order.
C18_VariationsOfLongTokens ==
    KeywordsReturned =>
        LET table == result.top_keywords
            parts == Split(Lower(search_keyword))
        IN  VariationsAmong(result.keyword_variations, table,
                {i \in DOMAIN table :
                    /\ \A p \in DOMAIN parts : table[i].word # parts[p]
                    /\ \E p \in DOMAIN parts :
                           Len(parts[p]) > 3 /\ Related(table[i].word, parts[p])})

\* C18, its case: more than 10 words of the table qualify, one of them by
\* similarity alone, and a word of the table is a token of the keyword
C18_Witness ==
    /\ KeywordsReturned
    /\ search_keyword = KeywordPythonTutorial
    /\ Len(result.keyword_variations) = 10
    /\ \E i \in DOMAIN result.top_keywords :
           result.top_keywords[i].word = Lower(KeywordPython)
    /\ \E k \in DOMAIN result.keyword_variations :
           result.keyword_variations[k].word = <<"t", "y", "p", "h", "o", "n">>
    /\ Cardinality({i \in DOMAIN result.top_keywords :
                       /\ ~InSeq(result.top_keywords[i].word, Split(search_keyword))
                       /\ \E p \in DOMAIN Split(search_keyword) :
                              Related(result.top_keywords[i].word,
                                      Split(search_keyword)[p])}) > 10

\* the title text from a to b is a whole token: letters only, with no word
\* character next to it
TokenAt(title, a, b) ==
    /\ a <= b
    /\ \A i \in a..b : IsAlpha(title[i])
    /\ a > 1 => ~IsWordChar(title[a - 1])
    /\ b < Len(title) => ~IsWordChar(title[b + 1])

\* the places of title where a token starts
TokenStarts(title) ==
    {a \in DOMAIN title : IsAlpha(title[a]) /\ (a > 1 => ~IsWordChar(title[a - 1]))}

\* the places of title where a token ends
TokenEnds(title) ==
    {b \in DOMAIN title :
        IsAlpha(title[b]) /\ (b < Len(title) => ~IsWordChar(title[b + 1]))}

\* the tokens of title, lower-cased, each with the place where it starts
TokensOf(title) ==
    LET lower == Lower(title)
    IN  {<<a, SubSeq(lower, a, b)>> :
            <<a, b>> \in {ab \in TokenStarts(title) \X TokenEnds(title) :
                             TokenAt(title, ab[1], ab[2])}}

\* every token of the titles: the record, the place in its title, the token
TokenPlaces(vs) ==
    UNION {{<<v, t[1], t[2]>> : t \in TokensOf(vs[v].title)} : v \in DOMAIN vs}

\* the tokens at places that may enter the table
CountableTokens(places) ==
    {word \in {p[3] : p \in places} : Len(word) >= 3 /\ word \notin stop_words}

\* C19: the top_keywords table has at most 20 entries (all the countable
\* tokens when there are no more than 20), each a lower-case alphabetic
\* token of length at least 3 outside the stop-word list, with the number of
\* its occurrences over all titles; the entries are in non-increasing count
\* order and no token left out has a strictly higher count than one included.
C19_TopKeywords ==
    KeywordsReturned =>
        LET table  == result.top_keywords
            places == TokenPlaces(videos)
            tokens == CountableTokens(places)
            Occurrences(word) == Cardinality({p \in places : p[3] = word})
        IN  /\ Len(table) = Min(20, Cardinality(tokens))
            /\ \A k \in DOMAIN table :
                   /\ table[k].word \in tokens
                   /\ \A i \in DOMAIN table[k].word :
                          table[k].word[i] \in Range(LowerLetters)
                   /\ table[k].count = Occurrences(table[k].word)
            /\ \A j, k \in DOMAIN table :
                   j < k => /\ table[j].count >= table[k].count
                            /\ table[j].word # table[k].word
            /\ \A word \in tokens :
                   (\A k \in DOMAIN table : table[k].word # word)
                       => \A k \in DOMAIN table : Occurrences(word) <= table[k].count

\* C19, its case: more than 20 countable tokens, the last title holds a stop
\* word, a short word and a number, and a token that first occurs after 20 others is in the table
\* because it occurs twice
C19_Witness ==
    /\ KeywordsReturned
    /\ videos[Len(videos)].title = TitleVue
    /\ Cardinality(CountableTokens(TokenPlaces(videos))) > 20
    /\ Len(result.top_keywords) = 20
    /\ \E k \in DOMAIN result.top_keywords :
           /\ result.top_keywords[k].word = <<"t", "i", "p", "s">>
           /\ result.top_keywords[k].count > 1

---------------------------------------------------------------------------
(* analyze_growth_patterns, the recent records: specification and claims.  *)

MaxAgedVideos == 4

\* 7 days and 23 hours before ClockNow
StampWeek == Stamp(2024, 6, 7, 13)
\* 8 days and 1 hour before ClockNow
StampEightDays == Stamp(2024, 6, 7, 11)

\* records published 3 days, just under 8 days and just over 8 days ago
AgedVideos ==
    {Video(TitlePlain, ChannelA, p, v, 0) :
        p \in {StampRecent, StampWeek, StampEightDays}, v \in {1, 2}}

NextAged == FetchVideo(AgedVideos, MaxAgedVideos) \/ AnalyzeGrowth
SpecAged == InitWith({<<>>}) /\ [][NextAged]_vars

\* the record was published less than 8 whole days before t_now
AtMostAWeekOld(video, t_now) == HoursOf(t_now) - HoursOf(video.published_at) < 8 * 24

\* C20: recent_trends holds only records whose age in whole days is at most
\* 7, at most 3 of them (all of them when there are no more than 3, none
\* when no record is that recent), in non-increasing view_count order, and
\* no record of that age left out has a strictly larger view_count than one
\* included.
C20_RecentTrends ==
    GrowthReturned =>
        LET trends == result.recent_trends
            recent == {i \in DOMAIN videos : AtMostAWeekOld(videos[i], now)}
        IN  /\ Len(trends) = Min(3, Cardinality(recent))
            /\ \A k \in DOMAIN trends : trends[k].days_ago <= 7
            /\ \A j, k \in DOMAIN trends :
                   j < k => trends[j].view_count >= trends[k].view_count
            /\ \E from \in [DOMAIN trends -> recent] :
                   /\ \A j, k \in DOMAIN trends : j # k => from[j] # from[k]
                   /\ \A k \in DOMAIN trends :
                          /\ trends[k].title = videos[from[k]].title
                          /\ trends[k].view_count = videos[from[k]].view_count
                          /\ 24 * trends[k].days_ago
                                 <= HoursOf(now) - HoursOf(videos[from[k]].published_at)
                          /\ 24 * (trends[k].days_ago + 1)
                                 > HoursOf(now) - HoursOf(videos[from[k]].published_at)
                   /\ \A i \in recent :
                          (\A k \in DOMAIN trends : from[k] # i)
                              => \A k \in DOMAIN trends :
                                     videos[i].view_count <= trends[k].view_count

\* C20, its case: four records, the first over 8 days old with the most
\* views, the others recent, among them one 7 days and 23 hours old that is
\* kept and one with fewer views that is left out
C20_Witness ==
    /\ GrowthReturned
    /\ Len(videos) = 4
    /\ videos[1].published_at = StampEightDays /\ videos[1].view_count = 2
    /\ videos[2].published_at = StampRecent /\ videos[2].view_count = 1
    /\ videos[3].published_at = StampWeek /\ videos[3].view_count = 2
    /\ videos[4].published_at = StampRecent /\ videos[4].view_count = 1
    /\ Len(result.recent_trends) = 3
    /\ result.recent_trends[1].days_ago = 7
    /\ result.recent_trends[3].days_ago = 3

---------------------------------------------------------------------------
(* analyze_competitors, the listed channels: specification and claims.     *)

\* the channels a market of this model has
MarketChannels == 11

\* The k-th record of a market whose 12th and later records come from the
\* channels of the first ones: the first record has no views or as many as
\* the second, the others views of their own.
SharedMarketVideos(k) ==
    {Video(TitlePlain, <<ManyChannels[((k - 1) % MarketChannels) + 1]>>, StampOld, v, 1) :
        v \in IF k = 1 THEN {0, 20}
              ELSE IF k % 2 = 1 THEN {10 * k, 10 * k + 1} ELSE {10 * k}}

FetchSharedMarketVideo ==
    /\ Len(videos) < MaxChannels
    /\ FetchVideo(SharedMarketVideos(Len(videos) + 1), MaxChannels)

NextShares == FetchSharedMarketVideo \/ AnalyzeCompetitors
SpecShares == InitWith({<<>>}) /\ [][NextShares]_vars

\* the views of the records of one channel
ViewsOfChannel(vs, channel) ==
    SumSeq([i \in DOMAIN vs |-> IF vs[i].channel = channel THEN vs[i].view_count ELSE 0])

\* top_competitors lists min(10, channels) channels, each once, by total
\* views non-increasing, each with the views of its records
ListsTopChannels(competitors, vs) ==
    /\ Len(competitors) = Min(10, Cardinality(Range(Column(vs, "channel"))))
    /\ \A j, k \in DOMAIN competitors :
           j < k => /\ competitors[j].channel # competitors[k].channel
                    /\ competitors[j].total_views >= competitors[k].total_views
    /\ \A k \in DOMAIN competitors :
           /\ \E i \in DOMAIN vs : vs[i].channel = competitors[k].channel
           /\ competitors[k].total_views = ViewsOfChannel(vs, competitors[k].channel)

\* C21: top_competitors has at most 10 channels, each at most once, by total
\* views non-increasing, and each channel's market_share equals its total
\* views divided by the sum of the views of all input records, times 100.
C21_ExactShares ==
    CompetitorsReturned =>
        /\ ListsTopChannels(result.top_competitors, videos)
        /\ \A k \in DOMAIN result.top_competitors :
               LET row == result.top_competitors[k]
               IN  /\ IsFinite(row.market_share)
                   /\ row.market_share.n * TotalViews(videos)
                          = 100 * row.total_views * row.market_share.d

\* C21, amended: top_competitors has at most 10 channels, each at most once,
\* by total views non-increasing, and when the views of all input records
\* sum to more than 0 each channel's market_share equals its total views
\* divided by that sum, times 100, rounded to two decimals (half to even).
C21_RoundedShares ==
    CompetitorsReturned =>
        /\ ListsTopChannels(result.top_competitors, videos)
        /\ TotalViews(videos) > 0 =>
               \A k \in DOMAIN result.top_competitors :
                   LET row == result.top_competitors[k]
                   IN  row.market_share
                           = Frac(RoundHalfEven(10000 * row.total_views, TotalViews(videos)), 100)

\* C21, its case: 11 channels, one of them with two records, 10 of them
\* listed, the first with a share that two decimals do not hold exactly
C21_Witness ==
    /\ CompetitorsReturned
    /\ result.total_channels = MarketChannels
    /\ Len(videos) > MarketChannels
    /\ Len(result.top_competitors) = 10
    /\ result.top_competitors[1].video_count = 2
    /\ result.top_competitors[1].market_share.n * TotalViews(videos)
           # 100 * result.top_competitors[1].total_views
                 * result.top_competitors[1].market_share.d

---------------------------------------------------------------------------
(* analyze_temporal_patterns, recent and older records: specification and  *)
(* claims.                                                                 *)

\* 30 days and 23 hours before ClockNow
StampThirtyDays == Stamp(2024, 5, 15, 13)
\* 31 days and 1 hour before ClockNow
StampThirtyOneDays == Stamp(2024, 5, 15, 11)

\* records published 3 days, just under 31 days and just over 31 days ago
PeriodVideos ==
    {Video(TitlePlain, ChannelA, p, v, 1) :
        p \in {StampRecent, StampThirtyDays, StampThirtyOneDays}, v \in {0, 2}}

NextPeriods == FetchVideo(PeriodVideos, MaxVideos) \/ AnalyzeTemporal
SpecPeriods == InitWith({<<>>}) /\ [][NextPeriods]_vars

\* the record was published less than 31 whole days before t_now
AtMostThirtyDaysOld(video, t_now) ==
    HoursOf(t_now) - HoursOf(video.published_at) < 31 * 24

\* C22: every record is either recent (age at most 30 days) or older (age
\* above 30 days): recent_videos_count and older_videos_count count the two
\* kinds and add up to the number of input records, and the mean views of a
\* side with no record is 0.
C22_RecentOrOlder ==
    TemporalReturned =>
        LET sides  == result.recent_vs_older
            recent == {i \in DOMAIN videos : AtMostThirtyDaysOld(videos[i], now)}
        IN  /\ sides.recent_videos_count = Cardinality(recent)
            /\ sides.older_videos_count = Cardinality(DOMAIN videos \ recent)
            /\ sides.recent_videos_count + sides.older_videos_count = Len(videos)
            /\ sides.recent_videos_count = 0 => sides.recent_avg_views = Num(0)
            /\ sides.older_videos_count = 0 => sides.older_avg_views = Num(0)

\* C22, its case: a record 30 days and 23 hours old counted as recent, one
\* 31 days and 1 hour old counted as older
C22_Witness ==
    /\ TemporalReturned
    /\ Len(videos) = 3
    /\ videos[1].published_at = StampThirtyDays
    /\ videos[2].published_at = StampThirtyOneDays
    /\ videos[3].published_at = StampThirtyDays
    /\ result.recent_vs_older.recent_videos_count = 2
    /\ result.recent_vs_older.older_videos_count = 1

---------------------------------------------------------------------------
(* analyze_temporal_patterns, the best posting times: specification and    *)
(* claims.                                                                 *)

MaxBucketVideos == 27

StampTuesday == Stamp(2024, 6, 11, 11)
StampWednesday == Stamp(2024, 6, 12, 14)
StampThursday == Stamp(2024, 6, 13, 20)

\* The k-th record of a search whose first four records open four hour and
\* day buckets and whose later records, without views, fall in turn into
\* the first and the second of them.
BucketVideos(k) ==
    IF k = 1 THEN {Video(TitlePlain, ChannelA, StampMonday, v, 0) : v \in {1, 2}}
    ELSE IF k = 2 THEN {Video(TitlePlain, ChannelA, StampTuesday, v, 0) : v \in {1, 2}}
    ELSE IF k = 3 THEN {Video(TitlePlain, ChannelA, StampWednesday, v, 0) : v \in {0, 3}}
    ELSE IF k = 4 THEN {Video(TitlePlain, ChannelA, StampThursday, v, 0) : v \in {0, 3}}
    ELSE IF k % 2 = 1 THEN {Video(TitlePlain, ChannelA, StampMonday, 0, 0)}
    ELSE {Video(TitlePlain, ChannelA, StampTuesday, 0, 0)}

FetchBucketVideo ==
    /\ Len(videos) < MaxBucketVideos
    /\ FetchVideo(BucketVideos(Len(videos) + 1), MaxBucketVideos)

NextBuckets == FetchBucketVideo \/ AnalyzeTemporal
SpecBuckets == InitWith({<<>>}) /\ [][NextBuckets]_vars

\* the mean views of the records of vs at the positions of bucket
MeanViews(vs, bucket) ==
    Frac(SumSeq([i \in DOMAIN vs |-> IF i \in bucket THEN vs[i].view_count ELSE 0]),
         Cardinality(bucket))

\* the mean views of each hour of day and of each day of the week of vs
MeanViewsByHour(vs) ==
    [h \in {vs[i].published_at.hour : i \in DOMAIN vs} |->
        MeanViews(vs, {i \in DOMAIN vs : vs[i].published_at.hour = h})]

MeanViewsByDay(vs) ==
    [d \in {DayName(vs[i].published_at) : i \in DOMAIN vs} |->
        MeanViews(vs, {i \in DOMAIN vs : DayName(vs[i].published_at) = d})]

\* best lists min(3, buckets) distinct buckets by non-increasing mean, and
\* no bucket left out has a larger mean than one listed
BestByMean(best, key, means) ==
    /\ Len(best) = Min(3, Cardinality(DOMAIN means))
    /\ \A k \in DOMAIN best : best[k][key] \in DOMAIN means
    /\ \A j, k \in DOMAIN best :
           j < k => /\ best[j][key] # best[k][key]
                    /\ ~FLt(means[best[j][key]], means[best[k][key]])
    /\ \A b \in DOMAIN means :
           (\A k \in DOMAIN best : best[k][key] # b)
               => \A k \in DOMAIN best : ~FGt(means[b], means[best[k][key]])

\* C23: best_hours and best_days each hold min(3, number of buckets)
\* distinct buckets in non-increasing mean-views order, no bucket left out
\* has a strictly larger mean than one included, and the first entry of each
\* is the hour and the day that the 'Best posting hour' and 'Best posting
\* day' insights name.
C23_BestPostingTimes ==
    TemporalReturned =>
        LET best == result.best_posting_times
        IN  /\ BestByMean(best.best_hours, "hour", MeanViewsByHour(videos))
            /\ BestByMean(best.best_days, "day_of_week", MeanViewsByDay(videos))
            /\ result.insights[1].hour = best.best_hours[1].hour
            /\ result.insights[2].day = best.best_days[1].day_of_week

---------------------------------------------------------------------------
(* analyze_keywords, the long-tail phrases: specification and claims.      *)

MaxLongTailVideos == 19

\* "Python"
TitleKeywordOnly ==
    <<"P", "y", "t", "h", "o", "n">>

\* "Learn MicroPython fast today now ok"
TitleInsideToken ==
    <<"L", "e", "a", "r", "n", " ", "M", "i", "c", "r", "o", "P", "y", "t",
      "h", "o", "n", " ", "f", "a", "s", "t", " ", "t", "o", "d", "a", "y",
      " ", "n", "o", "w", " ", "o", "k">>

\* "No keyword here"
TitleNoKeyword ==
    <<"N", "o", " ", "k", "e", "y", "w", "o", "r", "d", " ", "h", "e", "r",
      "e">>

\* "Tip<k> Python guide"
TitleNumbered(k) ==
    <<"T", "i", "p">> \o IntToStr(k)
        \o <<" ", "P", "y", "t", "h", "o", "n", " ", "g", "u", "i", "d", "e">>

\* The k-th record of a search, published on the k-th of May: each of the
\* first three has a title without a phrase, a title with the keyword inside
\* a token, or the title of the fourth record; the later ones have numbered
\* titles.
LongTailVideos(k) ==
    {Video(title, ChannelA, Stamp(2024, 5, k, 12), 1, 1) :
        title \in IF k <= 3
                  THEN {TitleKeywordOnly, TitleInsideToken, TitleNoKeyword, TitleNumbered(4)}
                  ELSE {TitleNumbered(k)}}

FetchLongTailVideo ==
    /\ Len(videos) < MaxLongTailVideos
    /\ FetchVideo(LongTailVideos(Len(videos) + 1), MaxLongTailVideos)

NextLongTail == FetchLongTailVideo \/ AnalyzeKeywords
SpecLongTail == InitWith({KeywordPython}) /\ [][NextLongTail]_vars

\* the tokens of the lower-cased title of each record
TitleWords(vs) == [i \in DOMAIN vs |-> Split(Lower(vs[i].title))]

\* the place of the first token of words that contains keyword, 0 without one
FirstWith(words, keyword) ==
    LET with == {f \in DOMAIN words : Contains(words[f], Lower(keyword))}
    IN  IF with = {} THEN 0 ELSE CHOOSE f \in with : \A g \in with : f <= g

\* tokens is a run of words that includes the token at first
RunAround(tokens, words, first) ==
    /\ first > 0
    /\ \E a \in DOMAIN words :
           /\ a <= first /\ first <= a + Len(tokens) - 1
           /\ a + Len(tokens) - 1 <= Len(words)
           /\ SubSeq(words, a, a + Len(tokens) - 1) = tokens

\* C24: every phrase of long_tail_keywords has 2 to 4 tokens, is a run of
\* the tokens of a title that contains the search keyword, includes the
\* first token containing the keyword, and appears once; the list has at
\* most 15 entries, in the order in which the titles first yield them.
C24_LongTailPhrases ==
    KeywordsReturned =>
        LET long_tail == result.long_tail_keywords
            words  == TitleWords(videos)
            first  == [i \in DOMAIN videos |-> FirstWith(words[i], search_keyword)]
            tokens == [k \in DOMAIN long_tail |-> Split(long_tail[k].phrase)]
            from   == [k \in DOMAIN long_tail |->
                          {i \in DOMAIN videos :
                              /\ long_tail[k].title = Truncated(videos[i].title, 50)
                              /\ RunAround(tokens[k], words[i], first[i])}]
            source == [k \in DOMAIN long_tail |->
                          CHOOSE i \in from[k] : \A j \in from[k] : i <= j]
        IN  /\ Len(long_tail) <= 15
            /\ \A k \in DOMAIN long_tail :
                   /\ Len(tokens[k]) \in 2..4
                   /\ Join(tokens[k]) = long_tail[k].phrase
                   /\ from[k] # {}
            /\ \A j, k \in DOMAIN long_tail :
                   j < k => /\ long_tail[j].phrase # long_tail[k].phrase
                            /\ source[j] < source[k]

\* C24, its case: 19 titles yield 17 phrases, one of them twice and one of
\* them around a token that holds the keyword, and 15 are listed
C24_Witness ==
    /\ KeywordsReturned
    /\ Len(videos) = 19
    /\ videos[1].title = TitleInsideToken
    /\ videos[2].title = TitleNumbered(4)
    /\ videos[3].title = TitleKeywordOnly
    /\ Len(result.long_tail_keywords) = 15
    /\ Len(Split(result.long_tail_keywords[1].phrase)) = 4
    /\ result.long_tail_keywords[3].title = TitleNumbered(5)

---------------------------------------------------------------------------
(* generate_executive_report, the title formulas: claims.                  *)

ReportReturned == op = "generate_executive_report" /\ videos # <<>> /\ error = "none"

\* C25: content_strategy.title_formulas of the report contains the tutorial
\* formula exactly when the tutorial_pattern percentage that analyze_titles
\* computes over the successful subset exceeds 40, the number formula
\* exactly when number_pattern exceeds 50, and the question formula exactly
\* when question_pattern exceeds 20.
C25_TitleFormulas ==
    ReportReturned =>
        LET patterns == analyze_titles(videos).title_patterns
            formulas == result.content_strategy.title_formulas
        IN  /\ InSeq("'[Skill] Tutorial for [Audience]'", formulas)
                   <=> FGt(patterns.tutorial_pattern, Num(40))
            /\ InSeq("'[Number] [Topic] Tips/Tricks'", formulas)
                   <=> FGt(patterns.number_pattern, Num(50))
            /\ InSeq("'How to [Action] [Topic]?'", formulas)
                   <=> FGt(patterns.question_pattern, Num(20))


---------------------------------------------------------------------------
(* main: the filters and the order of the records.                         *)

\* the records pass the filters of the run and are in non-increasing
\* view_count order
FilteredAndSorted(vs, options) ==
    /\ \A i \in DOMAIN vs :
           /\ options.min_views # 0 => vs[i].view_count >= options.min_views
           /\ options.min_likes # 0 => vs[i].like_count >= options.min_likes
    /\ \A i, j \in DOMAIN vs : i < j => vs[i].view_count >= vs[j].view_count

NothingPassedFilters ==
    InSeq("No videos meet the view/like filters.", run.messages)

\* C26: in main (the flow that is not interactive), every record handed to
\* an aggregator or written to the output file has view_count >= min-views
\* and like_count >= min-likes when those options are given, the records
\* are in non-increasing view_count order, and when the filters leave zero
\* records no aggregator is invoked and no output file is written.
C26_FilteredSortedRecords ==
    ~run.options.interactive =>
        /\ \A i \in DOMAIN run.invoked :
               FilteredAndSorted(run.invoked[i].videos, run.options)
        /\ \A i \in DOMAIN run.written :
               FilteredAndSorted(run.written[i], run.options)
        /\ NothingPassedFilters =>
               /\ run.pc = "done"
               /\ videos = <<>>
               /\ run.invoked = <<>>
               /\ run.written = <<>>

\* C26, its case: a run with min-likes has handed two records with different
\* view counts to its aggregators and written them to the output file
C26_Witness ==
    /\ ~run.options.interactive
    /\ run.options.min_likes = 1
    /\ run.pc = "done"
    /\ Len(run.invoked) = 2
    /\ Len(run.written) = 1
    /\ Len(run.written[1]) = 2
    /\ run.written[1][1].view_count > run.written[1][2].view_count

---------------------------------------------------------------------------
(* search_videos and interactive_mode: the cap on the number of results.   *)

\* C27: for every requested max_results, the number of results
\* search_videos asks the platform for is min(max_results, 50), so never
\* more than 50; the interactive flow applies the same cap to the number
\* the user types before it searches.
C27_RequestCap ==
    [][/\ (run.pc = "search" /\ run'.pc = "searched") =>
              /\ run'.requested = Min(run.options.max_results, 50)
              /\ run'.requested <= 50
       /\ (run.pc = "interactive" /\ run'.pc = "search") =>
              /\ \E typed \in TypedResults : run'.options.max_results = Min(typed, 50)
              /\ run'.options.max_results <= 50]_vars

\* C27, its case: a run asked for more than 50 results and has searched
C27_Witness ==
    /\ ~run.options.interactive
    /\ run.options.max_results > 50
    /\ run.requested = 50
    /\ videos # <<>>

---------------------------------------------------------------------------
(* generate_executive_report: the opportunity score before its clamp.      *)

MaxReportChannels == 16

\* the record of the k-th channel a search can add: the first channel
\* unviewed, level with the others or far ahead of them, the second and the
\* third liked or not, each published on a day of its own
ReportVideos(k) ==
    {Video(TitlePlain, <<ManyChannels[k]>>, Stamp(2024, 5, k, 12), v, l) :
        v \in {10 + 2 * k} \cup (IF k = 1 THEN {0, 5000} ELSE {}),
        l \in {0} \cup (IF k = 1 THEN {1} ELSE IF k = 2 THEN {14}
                        ELSE IF k = 3 THEN {6} ELSE {})}

FetchReportVideo ==
    /\ Len(videos) < MaxReportChannels
    /\ FetchVideo(ReportVideos(Len(videos) + 1), MaxReportChannels)

NextReports == FetchReportVideo \/ GenerateExecutiveReport
SpecReports == InitWith({<<>>}) /\ [][NextReports]_vars

\* avg_engagement as _generate_executive_summary passes it, line 711
AvgEngagement(vs) ==
    SeriesMean([i \in DOMAIN vs |->
        FMul(FDiv(Num(vs[i].like_count), Num(vs[i].view_count)), Num(100))])

\* the score before its clamp, for every competitor analysis of the records
ScoresBeforeClamp(vs) ==
    {ScoreBeforeClamp(competitor_data, SeriesMean(IntSeries(Column(vs, "view_count"))),
                      AvgEngagement(vs)) :
        competitor_data \in analyze_competitors(vs)}

\* C28: for every non-empty record list passed to
\* generate_executive_report, the opportunity score before clamping is
\* between 3 and 10, so the clamp to [1,10] does not change it, and the
\* penalty for more than 15 competitors is not applied: the count it reads
\* is the length of top_competitors, at most 10.
C28_ScoreNeedsNoClamp ==
    ReportReturned =>
        LET scores == ScoresBeforeClamp(videos)
        IN  /\ scores \subseteq 3..10
            /\ \E s \in scores :
                   result.executive_summary.market_overview.opportunity_score
                       = IntToStr(s) \o <<"/", "1", "0">>
            /\ \A competitor_data \in analyze_competitors(videos) :
                   Len(competitor_data.top_competitors) <= 10

\* C28, its case: a report on records of more than 15 channels, one of them
\* far ahead and none liked, where the score before its clamp is 3
C28_Witness ==
    /\ ReportReturned
    /\ Cardinality(Range(Column(videos, "channel"))) > 15
    /\ ScoresBeforeClamp(videos) = {3}

---------------------------------------------------------------------------
(* _generate_temporal_insights: the comment on the volume of data.         *)

MaxHourVideos == 31

\* the k-th record a search can add: published at an hour of its own while
\* there is one left, the second to the fourth also at midnight
HourVideos(k) ==
    {Video(TitlePlain, ChannelA, Stamp(2024, 6, 10, h), k, 1) :
        h \in {(k - 1) % 24} \cup (IF k \in 2..4 THEN {0} ELSE {})}

FetchHourVideo ==
    /\ Len(videos) < MaxHourVideos
    /\ FetchVideo(HourVideos(Len(videos) + 1), MaxHourVideos)

NextHours == FetchHourVideo \/ AnalyzeTemporal
SpecHours == InitWith({<<>>}) /\ [][NextHours]_vars

LimitedData == "Limited data - analyze more videos for better insights"
ModerateData == "Moderate data - patterns are emerging but more analysis needed"
GoodData == "Good data coverage - patterns are reliable"

\* the insights that are plain sentences: the ones after the best hour, the
\* best day and, when some hour is a peak, the peak hours
TextInsights ==
    LET hours == result.hour_performance
        mean  == SeriesMean(Column(hours, "avg_views"))
        peak  == \E k \in DOMAIN hours : FGt(hours[k].avg_views, FMul(mean, Frac(12, 10)))
    IN  SubSeq(result.insights, IF peak THEN 4 ELSE 3, Len(result.insights))

HourBuckets == {videos[i].published_at.hour : i \in DOMAIN videos}

\* C29: the temporal insights contain exactly one comment on the volume of
\* data, chosen by the number of distinct hour-of-day buckets and not by the
\* number of records: 'Limited data' for fewer than 10 buckets, 'Moderate
\* data' otherwise; 'Good data coverage' is never given, whatever the number
\* of records.
C29_VolumeByHourBuckets ==
    TemporalReturned =>
        LET texts == TextInsights
            comments == {i \in DOMAIN texts : texts[i] \in {LimitedData, ModerateData, GoodData}}
        IN  /\ Cardinality(comments) = 1
            /\ \A i \in comments :
                   texts[i] = IF Cardinality(HourBuckets) < 10 THEN LimitedData
                              ELSE ModerateData

\* C29, its case: 30 records or more are analysed
C29_Witness ==
    /\ TemporalReturned
    /\ Len(videos) >= 30
    /\ InSeq(ModerateData, TextInsights)

---------------------------------------------------------------------------
(* Grouping: every record in one bucket.                                   *)

VideoCounts(rows) == SumSeq(Column(rows, "video_count"))

\* C30: grouping loses and duplicates no record: in analyze_competitors
\* the video_count values over all channels sum to the number of input
\* records and the total_views values to the sum of all view counts; in
\* analyze_temporal_patterns the video_count values of the hour buckets, of
\* the day-of-week buckets and of the (year, month) buckets each sum to the
\* number of input records.
C30_GroupingKeepsRecords ==
    /\ CompetitorsReturned =>
           LET channel_stats == GroupByChannel(videos)
           IN  /\ VideoCounts(channel_stats) = Len(videos)
               /\ SumSeq(Column(channel_stats, "total_views"))
                      = SumSeq(Column(videos, "view_count"))
               /\ result.total_channels = Len(channel_stats)
               /\ Len(channel_stats) <= 10 =>
                      /\ VideoCounts(result.top_competitors) = Len(videos)
                      /\ SumSeq(Column(result.top_competitors, "total_views"))
                             = SumSeq(Column(videos, "view_count"))
    /\ TemporalReturned =>
           /\ VideoCounts(result.hour_performance) = Len(videos)
           /\ VideoCounts(result.day_performance) = Len(videos)
           /\ VideoCounts(result.monthly_trends) = Len(videos)

\* C30, its case: three records in fewer hours and fewer months than there
\* are records
C30_Witness ==
    /\ TemporalReturned
    /\ Len(videos) = 3
    /\ Len(result.hour_performance) = 2
    /\ Len(result.monthly_trends) = 2
    /\ Cardinality(Range(Column(videos, "channel"))) = 2
========================================================================
